---- MODULE Spec2Model ----
(***************************************************************************)
(* Routinen Planer (src/index.tsx): the list collection, the cascade       *)
(* recalculation of start/end times, the mutation handlers of App and the  *)
(* active-timer state machine driven by a one-second interval.             *)
(*                                                                         *)
(* Conventions of the model                                                *)
(*  - a string the code takes apart (a name that is trimmed, a time        *)
(*    "HH:MM:SS" that is split at ':') is a sequence: a name is a sequence *)
(*    of one-character strings, a time string is the sequence of its       *)
(*    numeric fields <<h, m, s>> (the empty string is <<>>);               *)
(*  - a Date is the number of milliseconds since local midnight of the     *)
(*    current day (the date part is the anchor `new Date()` supplies);     *)
(*  - array indices are 0-based as in the code; Seq positions are index+1; *)
(*  - one action is one handler run to completion together with the        *)
(*    commit React performs for it (state replaced, effect cleanup and     *)
(*    effect of the timer useEffect re-run when a dependency changed);     *)
(*    state updaters run once, as in a production build.                   *)
(***************************************************************************)
EXTENDS Integers, Sequences, FiniteSets, TLC

VARIABLES
    lists,               \* useState<RoutineList[]>            (line 621)
    activeRoutineState,  \* useState<ActiveRoutineState|null>  (line 623)
    timerIdRef,          \* useRef: handle of the interval, or NULL (line 624)
    intervals,           \* intervals armed in the host runtime, each with the
                         \* `activeRoutineState` and `lists` of the render whose
                         \* effect armed it (what its callback closes over)
    emitted,             \* calls to playBeepSound / speakText made by the last step
    idCounter,           \* number of routine ids generateId has handed out
    moveCount,           \* number of cards moved so far
    call                 \* what a specification records beside the program's
                         \* state: a call of a pure function on its own (its
                         \* arguments and, once it returned, its result), the
                         \* handler call the last step made, or the speech
                         \* sink (NoCall in Spec and SpecDay)

vars == <<lists, activeRoutineState, timerIdRef, intervals, emitted, idCounter,
          moveCount, call>>

\* null for activeRoutineState (a record otherwise)
NULL == [null |-> TRUE]
\* no pure function is being called on its own
NoCall == [op |-> "none"]
\* timerIdRef.current when it names no interval (null, falsy)
NoTimer == 0
\* a number | null result: <<>> is null, <<n>> the number n
NullNumber == <<>>
\* an absent or empty string argument (undefined and "" are both falsy)
NoString == <<>>

----------------------------------------------------------------------------
(* Bounds of the model *)

MaxLists == 2        \* lists ever created
MaxRoutines == 2     \* routines ever created, in Spec
MaxDayRoutines == 3  \* routines ever created, in SpecDay
MaxMoves == 1        \* cards ever moved (each move can shift a list's times)
MaxRecalcLen == 3    \* routines of a list handed to recalculateTimesInList

(* Inputs the user can type.  Spec, the program with its timer, takes short  *)
(* durations so that a countdown is a few ticks; SpecDay, the handlers with  *)
(* no interval firing, takes the durations and start times that carry a      *)
(* chain of routines over midnight.                                          *)

\* text fields: blank, and proper names
ListNameInputs == { <<" ">>, <<"L">> }
NameInputs == { <<" ">>, <<"A">>, <<"B">> }
DayNameInputs == { <<"A">> }
\* <input type="time"> values "HH:MM", and the cleared field ""
TimeInputs == { <<>>, <<9, 30>> }
DayTimeInputs == { <<8, 0>>, <<23, 59>> }
\* what parseDurationToSeconds returns for the typed duration
ParsedDurations == { NullNumber, <<0>>, <<1>>, <<2>> }
DayParsedDurations == { <<1>>, <<60>> }
\* wall-clock readings `new Date()` can give (ms since midnight)
NowDates == { 43200000 }

----------------------------------------------------------------------------
(* Helper functions, lines 29-50 *)

MsPerSecond == 1000
SecondsPerDay == 86400

\* parts[i] || 0 for an absent field
Part(parts, i) == IF i <= Len(parts) THEN parts[i] ELSE 0

parseTimeToDate(timeStr) ==
    (Part(timeStr, 1) * 3600 + Part(timeStr, 2) * 60 + Part(timeStr, 3)) * MsPerSecond

\* a format that carries the hours past 23 in place of wrapping
formatTimeFromDateCarry(date) ==
    LET secs == date \div MsPerSecond
    IN  << secs \div 3600, (secs % 3600) \div 60, secs % 60 >>

\* getHours / getMinutes / getSeconds of a Date: the time of day
formatTimeFromDate(date) ==
    LET secs == (date \div MsPerSecond) % SecondsPerDay
    IN  << secs \div 3600, (secs % 3600) \div 60, secs % 60 >>

addSecondsToDate(date, seconds) == date + seconds * MsPerSecond

\* String.prototype.trim on a sequence of characters
RECURSIVE TrimLeft(_)
TrimLeft(s) == IF s # <<>> /\ Head(s) = " " THEN TrimLeft(Tail(s)) ELSE s
RECURSIVE TrimRight(_)
TrimRight(s) ==
    IF s # <<>> /\ s[Len(s)] = " " THEN TrimRight(SubSeq(s, 1, Len(s) - 1)) ELSE s
Trim(s) == TrimRight(TrimLeft(s))

\* Array.prototype.splice(start, 0, item) and splice(start, 1)
SpliceStart(len, start) ==
    IF start < 0 THEN (IF len + start < 0 THEN 0 ELSE len + start)
    ELSE IF start > len THEN len ELSE start
SpliceInsert(arr, start, item) ==
    LET k == SpliceStart(Len(arr), start)
    IN  SubSeq(arr, 1, k) \o <<item>> \o SubSeq(arr, k + 1, Len(arr))
SpliceRemove(arr, start) ==
    LET k == SpliceStart(Len(arr), start)
    IN  SubSeq(arr, 1, k) \o SubSeq(arr, k + 2, Len(arr))

\* Array.prototype.findIndex on ids: 0-based index, -1 when absent
findIndex(arr, id) ==
    IF \E i \in 1..Len(arr) : arr[i].id = id
    THEN (CHOOSE i \in 1..Len(arr) :
            arr[i].id = id /\ \A j \in 1..(i - 1) : arr[j].id # id) - 1
    ELSE -1

\* Array.prototype.filter(r => r.id !== id)
RECURSIVE filterOut(_, _)
filterOut(arr, id) ==
    IF arr = <<>> THEN <<>>
    ELSE IF Head(arr).id = id THEN filterOut(Tail(arr), id)
    ELSE <<Head(arr)>> \o filterOut(Tail(arr), id)

----------------------------------------------------------------------------
(* Notifications: the text handed to the sink, as template and argument *)

Msg(tpl, arg) == [tpl |-> tpl, arg |-> arg]
\* playBeepSound(() => speakText(text)): a beep now, the text when it is over
BeepThenSpeak(tpl, arg) == [sink |-> "beepThenSpeak", text |-> Msg(tpl, arg)]
\* speakText(text): cancels the running utterance and speaks the text
Speak(tpl, arg) == [sink |-> "speak", text |-> Msg(tpl, arg)]
\* alert(text): a modal dialog, not a call to the speech or audio sink
Alert(tpl) == <<>>

----------------------------------------------------------------------------
(* The timer useEffect, lines 638-685: its cleanup and its body *)

clearInterval(ivs, handle) == { iv \in ivs : iv.id # handle }

\* the handle setInterval returns: one that names no armed interval
setIntervalHandle(ivs) ==
    CHOOSE h \in 1..(Cardinality(ivs) + 1) :
        /\ \A iv \in ivs : iv.id # h
        /\ \A g \in 1..(h - 1) : \E iv \in ivs : iv.id = g

\* effectCleanup with the clearInterval of lines 680-684 left out
effectCleanupNone(ref, ivs) == ivs

\* return () => { if (timerIdRef.current) clearInterval(timerIdRef.current) }
effectCleanup(ref, ivs) == IF ref # NoTimer THEN clearInterval(ivs, ref) ELSE ivs

\* the effect body: arm an interval whose callback closes over the render's
\* state, or clear the one the ref names
effectBody(active, ls, ref, ivs) ==
    IF active # NULL
    THEN LET h == setIntervalHandle(ivs)
         IN  [ref |-> h,
              ivs |-> ivs \cup { [id |-> h, state |-> active, lists |-> ls] }]
    ELSE IF ref # NoTimer
         THEN [ref |-> NoTimer, ivs |-> clearInterval(ivs, ref)]
         ELSE [ref |-> ref, ivs |-> ivs]

\* a commit in which activeRoutineState or lists changed: cleanup, then body
timerEffect(active, ls, ref, ivs) == effectBody(active, ls, ref, effectCleanup(ref, ivs))

\* the commit of a handler that replaced lists and/or activeRoutineState
Commit(newLists, newActive, notes) ==
    LET e == timerEffect(newActive, newLists, timerIdRef, intervals)
    IN  /\ lists' = newLists
        /\ activeRoutineState' = newActive
        /\ timerIdRef' = e.ref
        /\ intervals' = e.ivs
        /\ emitted' = notes

\* a handler that returned without setting any state
NoChange(notes) ==
    /\ emitted' = notes
    /\ UNCHANGED <<lists, activeRoutineState, timerIdRef, intervals, idCounter,
                   moveCount>>

----------------------------------------------------------------------------
(* Cascade recalculation, lines 694-715 *)

RECURSIVE recalcLoop(_, _, _)
recalcLoop(updatedRoutines, i, now) ==
    IF i >= Len(updatedRoutines) THEN updatedRoutines
    ELSE LET currentStartTimeDate ==
                 IF i = 0 THEN parseTimeToDate(updatedRoutines[i + 1].startTime)
                 ELSE IF updatedRoutines[i].endTime = <<>> THEN now
                 ELSE parseTimeToDate(updatedRoutines[i].endTime)
             endTimeDate ==
                 addSecondsToDate(currentStartTimeDate,
                                  updatedRoutines[i + 1].durationSeconds)
         IN  recalcLoop([updatedRoutines EXCEPT
                            ![i + 1].startTime = formatTimeFromDate(currentStartTimeDate),
                            ![i + 1].endTime = formatTimeFromDate(endTimeDate)],
                        i + 1, now)

\* recalculateTimesInList starting its loop at 0 whatever startIndex is
recalculateTimesFromZero(list, startIndex, now) ==
    IF Len(list.routines) = 0 THEN [list EXCEPT !.routines = <<>>]
    ELSE [list EXCEPT !.routines = recalcLoop(list.routines, 0, now)]

recalculateTimesInList(list, startIndex, now) ==
    IF Len(list.routines) = 0 THEN [list EXCEPT !.routines = <<>>]
    ELSE [list EXCEPT !.routines = recalcLoop(list.routines, startIndex, now)]

\* lists.find(l => l.id === listId): its position, 0 when there is none
findList(ls, listId) ==
    IF \E k \in 1..Len(ls) : ls[k].id = listId
    THEN CHOOSE k \in 1..Len(ls) :
            ls[k].id = listId /\ \A j \in 1..(k - 1) : ls[j].id # listId
    ELSE 0

Max(a, b) == IF a >= b THEN a ELSE b

----------------------------------------------------------------------------
(* List mutations: what the updater passed to setLists returns *)

\* addRoutineToList never taking the start time it is given (line 722)
addRoutineDefaultStart(prevLists, listId, name, durationSeconds, startTimeStr, newId) ==
    [k \in 1..Len(prevLists) |->
      IF prevLists[k].id # listId THEN prevLists[k]
      ELSE LET list == prevLists[k]
               newRoutineStartTimeStr ==
                   IF Len(list.routines) > 0
                   THEN list.routines[Len(list.routines)].endTime
                   ELSE <<8, 0, 0>>
               newRoutine ==
                   [id |-> newId,
                    name |-> name,
                    startTime |-> newRoutineStartTimeStr,
                    durationSeconds |-> durationSeconds,
                    endTime |-> formatTimeFromDate(
                        addSecondsToDate(parseTimeToDate(newRoutineStartTimeStr),
                                         durationSeconds))]
           IN  [list EXCEPT !.routines = Append(list.routines, newRoutine)]]

\* addRoutineToList leaving the end time of the new routine empty (line 735
\* left out)
addRoutineNoEndTime(prevLists, listId, name, durationSeconds, startTimeStr, newId) ==
    [k \in 1..Len(prevLists) |->
      IF prevLists[k].id # listId THEN prevLists[k]
      ELSE LET list == prevLists[k] IN
        LET newRoutineStartTimeStr ==
                IF startTimeStr # NoString THEN Append(startTimeStr, 0)
                ELSE IF Len(list.routines) > 0
                     THEN list.routines[Len(list.routines)].endTime
                     ELSE <<8, 0, 0>>
            newRoutine ==
                [id |-> newId,
                 name |-> name,
                 startTime |-> newRoutineStartTimeStr,
                 durationSeconds |-> durationSeconds,
                 endTime |-> <<>>]
        IN  [list EXCEPT !.routines = Append(list.routines, newRoutine)]]

\* lines 717-744; newId is the id generateId returns
addRoutineToList(prevLists, listId, name, durationSeconds, startTimeStr, newId) ==
    \* prevLists.map(list => list.id === listId ? ... : list)
    [k \in 1..Len(prevLists) |->
      IF prevLists[k].id # listId THEN prevLists[k]
      ELSE LET list == prevLists[k] IN
        LET newRoutineStartTimeStr ==
                IF startTimeStr # NoString THEN Append(startTimeStr, 0)
                ELSE IF Len(list.routines) > 0
                     THEN list.routines[Len(list.routines)].endTime
                     ELSE <<8, 0, 0>>
            newRoutine ==
                [id |-> newId,
                 name |-> name,
                 startTime |-> newRoutineStartTimeStr,
                 durationSeconds |-> durationSeconds,
                 endTime |-> formatTimeFromDate(
                     addSecondsToDate(parseTimeToDate(newRoutineStartTimeStr),
                                      durationSeconds))]
        IN  [list EXCEPT !.routines = Append(list.routines, newRoutine)]]

\* updateRoutineDurationInList with the recalculation left out
updateRoutineDurationNoRecalc(prevLists, listId, routineId, newDurationSeconds, now) ==
    \* prevLists.map(list => list.id === listId ? ... : list)
    [k \in 1..Len(prevLists) |->
      IF prevLists[k].id # listId THEN prevLists[k]
      ELSE LET list == prevLists[k] IN
        LET routineIndex == findIndex(list.routines, routineId)
        IN  IF routineIndex = -1 THEN list
            ELSE [list EXCEPT !.routines[routineIndex + 1].durationSeconds =
                                  newDurationSeconds]]

\* updateRoutineDurationInList recalculating from the routine after the
\* edited one only
updateRoutineDurationRecalcNext(prevLists, listId, routineId, newDurationSeconds, now) ==
    [k \in 1..Len(prevLists) |->
      IF prevLists[k].id # listId THEN prevLists[k]
      ELSE LET list == prevLists[k]
               routineIndex == findIndex(list.routines, routineId)
           IN  IF routineIndex = -1 THEN list
               ELSE recalculateTimesInList(
                        [list EXCEPT !.routines[routineIndex + 1].durationSeconds =
                                         newDurationSeconds],
                        routineIndex + 1, now)]

\* lines 746-770
updateRoutineDurationInList(prevLists, listId, routineId, newDurationSeconds, now) ==
    \* prevLists.map(list => list.id === listId ? ... : list)
    [k \in 1..Len(prevLists) |->
      IF prevLists[k].id # listId THEN prevLists[k]
      ELSE LET list == prevLists[k] IN
        LET routineIndex == findIndex(list.routines, routineId)
        IN  IF routineIndex = -1 THEN list
            ELSE recalculateTimesInList(
                     [list EXCEPT !.routines[routineIndex + 1].durationSeconds =
                                      newDurationSeconds],
                     routineIndex, now)]

\* updateListStartTime with the recalculation of line 784 left out
updateListStartTimeNoRecalc(prevLists, listId, newStartTimeStrWithSeconds, now) ==
    [k \in 1..Len(prevLists) |->
      IF prevLists[k].id # listId THEN prevLists[k]
      ELSE LET list == prevLists[k]
           IN  IF Len(list.routines) = 0 THEN list
               ELSE [list EXCEPT !.routines[1].startTime = newStartTimeStrWithSeconds]]

\* lines 772-795
updateListStartTime(prevLists, listId, newStartTimeStrWithSeconds, now) ==
    \* prevLists.map(list => list.id === listId ? ... : list)
    [k \in 1..Len(prevLists) |->
      IF prevLists[k].id # listId THEN prevLists[k]
      ELSE LET list == prevLists[k] IN
        IF Len(list.routines) = 0 THEN list
        ELSE recalculateTimesInList(
                 [list EXCEPT !.routines[1].startTime = newStartTimeStrWithSeconds],
                 0, now)]

\* deleteRoutine with the recalculation left out
deleteRoutineNoRecalc(prevLists, listId, routineId, now) ==
    \* prevLists.map(list => list.id === listId ? ... : list)
    [k \in 1..Len(prevLists) |->
      IF prevLists[k].id # listId THEN prevLists[k]
      ELSE LET list == prevLists[k] IN
        [list EXCEPT !.routines = filterOut(list.routines, routineId)]]

\* lines 797-824
deleteRoutine(prevLists, listId, routineId, now) ==
    \* prevLists.map(list => list.id === listId ? ... : list)
    [k \in 1..Len(prevLists) |->
      IF prevLists[k].id # listId THEN prevLists[k]
      ELSE LET list == prevLists[k] IN
        LET updatedRoutines == filterOut(list.routines, routineId)
            routineIndex == findIndex(list.routines, routineId)
        IN  recalculateTimesInList([list EXCEPT !.routines = updatedRoutines],
                                   Max(0, routineIndex - 1), now)]

\* lines 826-839
deleteAllRoutinesInList(prevLists, listId) ==
    \* prevLists.map(list => list.id === listId ? ... : list)
    [k \in 1..Len(prevLists) |->
      IF prevLists[k].id # listId THEN prevLists[k]
      ELSE LET list == prevLists[k] IN [list EXCEPT !.routines = <<>>]]

\* moveRoutine putting the card behind the target's last routine whatever
\* targetIndex is (line 859)
moveRoutineAppend(prevLists, cardId, sourceListId, targetListId, targetIndex, now) ==
    LET sourceListIdx == findList(prevLists, sourceListId)
        targetListIdx == findList(prevLists, targetListId)
    IN  IF sourceListIdx = 0 THEN prevLists
        ELSE LET cardIndexInSource == findIndex(prevLists[sourceListIdx].routines, cardId)
             IN  IF cardIndexInSource = -1 \/ targetListIdx = 0 THEN prevLists
                 ELSE LET cardToMove ==
                              prevLists[sourceListIdx].routines[cardIndexInSource + 1]
                          removed ==
                              [prevLists EXCEPT ![sourceListIdx].routines =
                                   SpliceRemove(@, cardIndexInSource)]
                          inserted ==
                              [removed EXCEPT ![targetListIdx].routines =
                                   Append(@, cardToMove)]
                          sourceDone ==
                              IF Len(inserted[sourceListIdx].routines) > 0
                              THEN [inserted EXCEPT ![sourceListIdx] =
                                        recalculateTimesInList(@, 0, now)]
                              ELSE inserted
                      IN  [sourceDone EXCEPT ![targetListIdx] =
                               recalculateTimesInList(@, 0, now)]

\* moveRoutine with the two recalculations of lines 861-864 left out
moveRoutineNoRecalc(prevLists, cardId, sourceListId, targetListId, targetIndex, now) ==
    LET sourceListIdx == findList(prevLists, sourceListId)
        targetListIdx == findList(prevLists, targetListId)
    IN  IF sourceListIdx = 0 THEN prevLists
        ELSE LET cardIndexInSource == findIndex(prevLists[sourceListIdx].routines, cardId)
             IN  IF cardIndexInSource = -1 \/ targetListIdx = 0 THEN prevLists
                 ELSE LET cardToMove ==
                              prevLists[sourceListIdx].routines[cardIndexInSource + 1]
                          removed ==
                              [prevLists EXCEPT ![sourceListIdx].routines =
                                   SpliceRemove(@, cardIndexInSource)]
                      IN  [removed EXCEPT ![targetListIdx].routines =
                               SpliceInsert(@, targetIndex, cardToMove)]

\* moveRoutine leaving the card in the source list as well (the splice of
\* line 851 left out)
moveRoutineCopy(prevLists, cardId, sourceListId, targetListId, targetIndex, now) ==
    LET sourceListIdx == findList(prevLists, sourceListId)
        targetListIdx == findList(prevLists, targetListId)
    IN  IF sourceListIdx = 0 THEN prevLists
        ELSE LET cardIndexInSource == findIndex(prevLists[sourceListIdx].routines, cardId)
             IN  IF cardIndexInSource = -1 \/ targetListIdx = 0 THEN prevLists
                 ELSE LET cardToMove ==
                              prevLists[sourceListIdx].routines[cardIndexInSource + 1]
                          inserted ==
                              [prevLists EXCEPT ![targetListIdx].routines =
                                   SpliceInsert(@, targetIndex, cardToMove)]
                          sourceDone ==
                              [inserted EXCEPT ![sourceListIdx] =
                                   recalculateTimesInList(@, 0, now)]
                      IN  [sourceDone EXCEPT ![targetListIdx] =
                               recalculateTimesInList(@, 0, now)]

\* lines 841-874
moveRoutine(prevLists, cardId, sourceListId, targetListId, targetIndex, now) ==
    LET sourceListIdx == findList(prevLists, sourceListId)
        targetListIdx == findList(prevLists, targetListId)
    IN  IF sourceListIdx = 0 THEN prevLists
        ELSE LET cardIndexInSource == findIndex(prevLists[sourceListIdx].routines, cardId)
             IN  IF cardIndexInSource = -1 \/ targetListIdx = 0 THEN prevLists
                 ELSE LET cardToMove ==
                              prevLists[sourceListIdx].routines[cardIndexInSource + 1]
                          removed ==
                              [prevLists EXCEPT ![sourceListIdx].routines =
                                   SpliceRemove(@, cardIndexInSource)]
                          inserted ==
                              [removed EXCEPT ![targetListIdx].routines =
                                   SpliceInsert(@, targetIndex, cardToMove)]
                          sourceDone ==
                              IF Len(inserted[sourceListIdx].routines) > 0
                              THEN [inserted EXCEPT ![sourceListIdx] =
                                        recalculateTimesInList(@, 0, now)]
                              ELSE inserted
                      IN  [sourceDone EXCEPT ![targetListIdx] =
                               recalculateTimesInList(@, 0, now)]

\* moveList without the decrement of the target index of line 989
moveListNoShift(prevLists, sourceIndex, targetIndexInContainer) ==
    IF sourceIndex >= Len(prevLists) THEN prevLists
    ELSE SpliceInsert(SpliceRemove(prevLists, sourceIndex), targetIndexInContainer,
                      prevLists[sourceIndex + 1])

\* lines 984-994
moveList(prevLists, sourceIndex, targetIndexInContainer) ==
    IF sourceIndex >= Len(prevLists) THEN prevLists
    ELSE LET movedList == prevLists[sourceIndex + 1]
             actualTargetIndex ==
                 IF sourceIndex < targetIndexInContainer
                 THEN targetIndexInContainer - 1 ELSE targetIndexInContainer
         IN  SpliceInsert(SpliceRemove(prevLists, sourceIndex), actualTargetIndex,
                          movedList)

----------------------------------------------------------------------------
(* Initial state: App as constructed, lines 621-624 *)

Init ==
    /\ lists = <<>>
    /\ activeRoutineState = NULL
    /\ timerIdRef = NoTimer
    /\ intervals = {}
    /\ emitted = <<>>
    /\ idCounter = 0
    /\ moveCount = 0
    /\ call = NoCall

\* generateId, line 29: an id never handed out before.  Ids of lists and ids
\* of routines are never compared with each other, so each kind is numbered
\* on its own; lists are never removed, so Len(lists) of them were created.
generateListId == Len(lists) + 1
generateId == idCounter + 1

Running == activeRoutineState # NULL

\* activeRoutineState?.listId === listId
activeOn(listId) == Running /\ activeRoutineState.listId = listId

----------------------------------------------------------------------------
(* Handlers *)

\* handleAddList, lines 687-692
handleAddList(newListName) ==
    IF Trim(newListName) = <<>>
    THEN NoChange(<<>>)
    ELSE    /\ Commit(Append(lists, [id |-> generateListId, title |-> newListName,
                                      routines |-> <<>>]),
                      activeRoutineState, <<>>)
            /\ UNCHANGED <<idCounter, moveCount>>

\* handleAddRoutineToList with an effect that does not depend on `lists`
\* (line 685): the armed interval keeps the lists it closed over
handleAddRoutineStaleInterval(listId, name, durationSeconds, startTimeStr) ==
    /\ lists' = addRoutineToList(lists, listId, name, durationSeconds, startTimeStr,
                                 generateId)
    /\ emitted' = <<>>
    /\ idCounter' = idCounter + 1
    /\ UNCHANGED <<activeRoutineState, timerIdRef, intervals, moveCount>>

\* handleAddRoutineToList, lines 717-744
handleAddRoutineToList(listId, name, durationSeconds, startTimeStr) ==
    /\ Commit(addRoutineToList(lists, listId, name, durationSeconds, startTimeStr,
                               generateId),
              activeRoutineState, <<>>)
    /\ idCounter' = idCounter + 1
    /\ UNCHANGED moveCount

\* handleSubmitNewRoutine passing the typed start time on for every routine,
\* not for the first one only (line 386)
handleSubmitNewRoutineKeepStart(k, newRoutineName, durationSec, newRoutineStartTime) ==
    IF \/ Trim(newRoutineName) = <<>>
       \/ durationSec = NullNumber
       \/ (durationSec # NullNumber /\ durationSec[1] <= 0)
    THEN NoChange(Alert("nameUndDauer"))
    ELSE handleAddRoutineToList(lists[k].id, newRoutineName, durationSec[1],
                                newRoutineStartTime)

\* handleSubmitNewRoutine of the list rendered at position k, lines 378-390;
\* durationSec is parseDurationToSeconds(newRoutineDurationInput)
handleSubmitNewRoutine(k, newRoutineName, durationSec, newRoutineStartTime) ==
    IF \/ Trim(newRoutineName) = <<>>
       \/ durationSec = NullNumber
       \/ (durationSec # NullNumber /\ durationSec[1] <= 0)
    THEN NoChange(Alert("nameUndDauer"))
    ELSE LET isFirstRoutine == Len(lists[k].routines) = 0
         IN  handleAddRoutineToList(lists[k].id, newRoutineName, durationSec[1],
                 IF isFirstRoutine THEN newRoutineStartTime ELSE NoString)

\* handleUpdateRoutineDurationInList stopping the timer of the list before it
\* looks for the routine (lines 761-764 ahead of line 751)
handleUpdateRoutineDurationStopFirst(listId, routineId, newDurationSeconds, now) ==
    LET hit == \E k \in 1..Len(lists) : lists[k].id = listId /\ activeOn(listId)
    IN  /\ Commit(updateRoutineDurationInList(lists, listId, routineId,
                                              newDurationSeconds, now),
                  IF hit THEN NULL ELSE activeRoutineState,
                  IF hit THEN <<BeepThenSpeak("gestopptZeitaenderung", <<>>)>>
                  ELSE <<>>)
        /\ UNCHANGED <<idCounter, moveCount>>

\* handleUpdateRoutineDurationInList leaving the timer running on the list
\* whose routine it changed (lines 761-764 left out)
handleUpdateRoutineDurationKeepTimer(listId, routineId, newDurationSeconds, now) ==
    /\ Commit(updateRoutineDurationInList(lists, listId, routineId,
                                          newDurationSeconds, now),
              activeRoutineState, <<>>)
    /\ UNCHANGED <<idCounter, moveCount>>

\* handleUpdateRoutineDurationInList, lines 746-770
handleUpdateRoutineDurationInList(listId, routineId, newDurationSeconds, now) ==
    LET hit == \E k \in 1..Len(lists) :
                   /\ lists[k].id = listId
                   /\ findIndex(lists[k].routines, routineId) # -1
                   /\ activeOn(listId)
    IN  /\ Commit(updateRoutineDurationInList(lists, listId, routineId,
                                              newDurationSeconds, now),
                  IF hit THEN NULL ELSE activeRoutineState,
                  IF hit THEN <<BeepThenSpeak("gestopptZeitaenderung", <<>>)>>
                  ELSE <<>>)
        /\ UNCHANGED <<idCounter, moveCount>>

\* handleSaveDuration of the card at index i of the list at position k,
\* lines 238-247; newDurationSec is parseDurationToSeconds(editDurationInput)
handleSaveDuration(k, i, newDurationSec, now) ==
    IF newDurationSec # NullNumber /\ newDurationSec[1] >= 0
    THEN handleUpdateRoutineDurationInList(lists[k].id, lists[k].routines[i + 1].id,
                                           newDurationSec[1], now)
    ELSE NoChange(Alert("ungueltigeDauer"))

\* handleUpdateListStartTime, lines 772-795
handleUpdateListStartTime(listId, newStartTimeStrWithSeconds, now) ==
    LET hit == \E k \in 1..Len(lists) :
                   /\ lists[k].id = listId
                   /\ Len(lists[k].routines) # 0
                   /\ activeOn(listId)
    IN  /\ Commit(updateListStartTime(lists, listId, newStartTimeStrWithSeconds, now),
                  IF hit THEN NULL ELSE activeRoutineState,
                  IF hit THEN <<BeepThenSpeak("gestopptZeitaenderung", <<>>)>>
                  ELSE <<>>)
        /\ UNCHANGED <<idCounter, moveCount>>

\* isHHMM letting every value pass (the test of line 465 left out)
isHHMMAny(timeStr) == TRUE

\* /^\d{2}:\d{2}$/ on an <input type="time"> value: "HH:MM" passes, "" does not
isHHMM(timeStr) == Len(timeStr) = 2

\* handleSaveListStartTime of the list at position k, lines 459-471
handleSaveListStartTime(k, editListStartTime, now) ==
    IF Len(lists[k].routines) = 0
    THEN NoChange(Alert("keineRoutinen"))
    ELSE IF ~isHHMM(editListStartTime)
    THEN NoChange(Alert("ungueltigesZeitformat"))
    ELSE handleUpdateListStartTime(lists[k].id, Append(editListStartTime, 0), now)

\* deleteRoutineTimer stopping the timer without the announcements of
\* lines 808 and 813
deleteRoutineTimerSilent(active, list, routineId) ==
    LET updatedRoutines == filterOut(list.routines, routineId)
    IN  IF Len(updatedRoutines) = 0 \/ active.routineId = routineId
        THEN [active |-> NULL, notes |-> <<>>]
        ELSE IF \/ ~(active.currentRoutineIndex < Len(updatedRoutines))
                \/ updatedRoutines[active.currentRoutineIndex + 1].id # active.routineId
        THEN [active |-> NULL, notes |-> <<>>]
        ELSE [active |-> [active EXCEPT !.routineName =
                              updatedRoutines[active.currentRoutineIndex + 1].name],
              notes |-> <<>>]

\* deleteRoutineTimer without the check of lines 811-815 that the active
\* index still names the active routine
deleteRoutineTimerKeep(active, list, routineId) ==
    LET updatedRoutines == filterOut(list.routines, routineId)
    IN  IF Len(updatedRoutines) = 0 \/ active.routineId = routineId
        THEN [active |-> NULL,
              notes |-> <<BeepThenSpeak("gestopptGeloescht", <<>>)>>]
        ELSE [active |-> active, notes |-> <<>>]

\* deleteRoutineTimer stopping the timer at every deletion in the running
\* list (the test of lines 809-810 taken as true)
deleteRoutineTimerStop(active, list, routineId) ==
    [active |-> NULL, notes |-> <<BeepThenSpeak("gestopptAenderungen", <<>>)>>]

\* the timer part of handleDeleteRoutine, lines 805-818
deleteRoutineTimer(active, list, routineId) ==
    LET updatedRoutines == filterOut(list.routines, routineId)
    IN  IF Len(updatedRoutines) = 0 \/ active.routineId = routineId
        THEN [active |-> NULL,
              notes |-> <<BeepThenSpeak("gestopptGeloescht", <<>>)>>]
        ELSE IF \/ ~(active.currentRoutineIndex < Len(updatedRoutines))
                \/ updatedRoutines[active.currentRoutineIndex + 1].id # active.routineId
        THEN [active |-> NULL,
              notes |-> <<BeepThenSpeak("gestopptAenderungen", <<>>)>>]
        ELSE [active |-> [active EXCEPT !.routineName =
                              updatedRoutines[active.currentRoutineIndex + 1].name],
              notes |-> <<>>]

\* handleDeleteRoutine, lines 797-824
handleDeleteRoutine(listId, routineId, now) ==
    LET k == findList(lists, listId)
        t == IF k # 0 /\ activeOn(listId)
             THEN deleteRoutineTimer(activeRoutineState, lists[k], routineId)
             ELSE [active |-> activeRoutineState, notes |-> <<>>]
    IN  /\ Commit(deleteRoutine(lists, listId, routineId, now), t.active, t.notes)
        /\ UNCHANGED <<idCounter, moveCount>>

\* handleDeleteAllRoutinesInList without the setActiveRoutineState(null) and
\* the announcement of lines 830-831
handleDeleteAllKeepTimer(listId) ==
    /\ Commit(deleteAllRoutinesInList(lists, listId), activeRoutineState, <<>>)
    /\ UNCHANGED <<idCounter, moveCount>>

\* handleDeleteAllRoutinesInList, lines 826-839
handleDeleteAllRoutinesInList(listId) ==
    LET k == findList(lists, listId)
        hit == k # 0 /\ activeOn(listId)
    IN  /\ Commit(deleteAllRoutinesInList(lists, listId),
                  IF hit THEN NULL ELSE activeRoutineState,
                  IF hit THEN <<BeepThenSpeak("gestopptAlleGeloescht", lists[k].title)>>
                  ELSE <<>>)
        /\ UNCHANGED <<idCounter, moveCount>>

\* handleMoveRoutine, lines 841-874
handleMoveRoutine(cardId, sourceListId, targetListId, targetIndex, now) ==
    LET sourceListIdx == findList(lists, sourceListId)
        found == /\ sourceListIdx # 0
                 /\ findIndex(lists[sourceListIdx].routines, cardId) # -1
                 /\ findList(lists, targetListId) # 0
        hit == found /\ (activeOn(sourceListId) \/ activeOn(targetListId))
    IN  /\ IF found
           THEN /\ Commit(moveRoutine(lists, cardId, sourceListId, targetListId,
                                      targetIndex, now),
                          IF hit THEN NULL ELSE activeRoutineState,
                          IF hit THEN <<BeepThenSpeak("gestopptVerschieben", <<>>)>>
                          ELSE <<>>)
                /\ moveCount' = moveCount + 1
                /\ UNCHANGED idCounter
           ELSE NoChange(<<>>)

\* handleDropOnCardContainer of the list at position kt, lines 436-457, for a
\* card dragged from index i of the list at position ks (draggedItemInfo,
\* line 223); targetIndex is the placeholder's position among the cards
handleDropOnCardContainer(ks, i, kt, targetIndex, now) ==
    handleMoveRoutine(lists[ks].routines[i + 1].id, lists[ks].id, lists[kt].id,
                      targetIndex, now)

\* handleMoveList, lines 984-994
handleMoveList(sourceIndex, targetIndexInContainer) ==
    /\ Commit(moveList(lists, sourceIndex, targetIndexInContainer),
              activeRoutineState, <<>>)
    /\ UNCHANGED <<idCounter, moveCount>>

\* handleDropListInContainer, lines 965-982
handleDropListInContainer(originalIndex, targetIndex) ==
    /\ originalIndex # targetIndex
    /\ handleMoveList(originalIndex, targetIndex)

----------------------------------------------------------------------------
(* The active timer *)

\* startState with the remaining time not initialised from the duration
startStateZero(list) ==
    [listId |-> list.id,
     routineId |-> list.routines[1].id,
     currentRoutineIndex |-> 0,
     timeLeftInSeconds |-> 0,
     routineName |-> list.routines[1].name]

\* the state a start command gives: lines 887-894
startState(list) ==
    [listId |-> list.id,
     routineId |-> list.routines[1].id,
     currentRoutineIndex |-> 0,
     timeLeftInSeconds |-> list.routines[1].durationSeconds,
     routineName |-> list.routines[1].name]

\* the state handleToggleStartStopList sets, lines 882-901
toggleState(listId) ==
    LET k == findList(lists, listId)
    IN  IF activeOn(listId) THEN NULL
        ELSE IF k # 0 /\ Len(lists[k].routines) > 0 THEN startState(lists[k])
        ELSE NULL

\* toggleNotes without the announcement of lines 897-899
toggleNotesSilent(listId) == <<>>

\* what handleToggleStartStopList announces, lines 897-899
toggleNotes(listId) ==
    LET k == findList(lists, listId)
    IN  IF ~activeOn(listId) /\ k # 0 /\ Len(lists[k].routines) = 0
        THEN <<BeepThenSpeak("keineRoutinenZumStarten", lists[k].title)>>
        ELSE <<>>

\* toggleClear with the clearInterval of line 878 left out
toggleClearNone(ivs, ref) == ivs

\* lines 877-880: the interval is cleared and the ref reset before anything else
toggleClear(ivs, ref) == IF ref # NoTimer THEN clearInterval(ivs, ref) ELSE ivs

\* handleToggleStartStopList, lines 876-902
handleToggleStartStopList(listId) ==
    LET ivs0 == toggleClear(intervals, timerIdRef)
        newActive == toggleState(listId)
        notes == toggleNotes(listId)
        \* setActiveRoutineState(null) on a null state schedules no commit
        changed == ~(newActive = NULL /\ activeRoutineState = NULL)
        e == IF changed THEN timerEffect(newActive, lists, NoTimer, ivs0)
             ELSE [ref |-> NoTimer, ivs |-> ivs0]
    IN  /\ activeRoutineState' = newActive
        /\ timerIdRef' = e.ref
        /\ intervals' = e.ivs
        /\ emitted' = notes
        /\ UNCHANGED <<lists, idCounter, moveCount>>

\* tickUpdater advancing to the next routine without taking its duration
\* (line 662 keeping the counter of the routine that ended)
tickUpdaterNoReset(prev, closedLists) ==
    IF prev = NULL THEN [active |-> NULL, notes |-> <<>>]
    ELSE IF prev.timeLeftInSeconds <= 1
    THEN LET done == BeepThenSpeak("istFertig", prev.routineName)
             k == findList(closedLists, prev.listId)
             nextRoutineIndex == prev.currentRoutineIndex + 1
         IN  IF k = 0 THEN [active |-> NULL, notes |-> <<done>>]
             ELSE IF nextRoutineIndex < Len(closedLists[k].routines)
             THEN LET nextRoutine == closedLists[k].routines[nextRoutineIndex + 1]
                  IN  [active |-> [listId |-> prev.listId,
                                   routineId |-> nextRoutine.id,
                                   currentRoutineIndex |-> nextRoutineIndex,
                                   timeLeftInSeconds |-> prev.timeLeftInSeconds,
                                   routineName |-> nextRoutine.name],
                       notes |-> <<done>>]
             ELSE [active |-> NULL,
                   notes |-> <<done, Speak("alleAbgeschlossen", closedLists[k].title)>>]
    ELSE [active |-> [prev EXCEPT !.timeLeftInSeconds = prev.timeLeftInSeconds - 1],
          notes |-> <<>>]

\* tickUpdater completing a routine one tick late (`<= 0` for `<= 1`)
tickUpdaterLate(prev, closedLists) ==
    IF prev = NULL THEN [active |-> NULL, notes |-> <<>>]
    ELSE IF prev.timeLeftInSeconds <= 0
    THEN LET done == BeepThenSpeak("istFertig", prev.routineName)
             k == findList(closedLists, prev.listId)
             nextRoutineIndex == prev.currentRoutineIndex + 1
         IN  IF k = 0 THEN [active |-> NULL, notes |-> <<done>>]
             ELSE IF nextRoutineIndex < Len(closedLists[k].routines)
             THEN LET nextRoutine == closedLists[k].routines[nextRoutineIndex + 1]
                  IN  [active |-> [listId |-> prev.listId,
                                   routineId |-> nextRoutine.id,
                                   currentRoutineIndex |-> nextRoutineIndex,
                                   timeLeftInSeconds |-> nextRoutine.durationSeconds,
                                   routineName |-> nextRoutine.name],
                       notes |-> <<done>>]
             ELSE [active |-> NULL,
                   notes |-> <<done, Speak("alleAbgeschlossen", closedLists[k].title)>>]
    ELSE [active |-> [prev EXCEPT !.timeLeftInSeconds = prev.timeLeftInSeconds - 1],
          notes |-> <<>>]

\* tickUpdater announcing the list as complete after every routine
tickUpdaterEager(prev, closedLists) ==
    IF prev = NULL THEN [active |-> NULL, notes |-> <<>>]
    ELSE IF prev.timeLeftInSeconds <= 1
    THEN LET done == BeepThenSpeak("istFertig", prev.routineName)
             k == findList(closedLists, prev.listId)
         IN  IF k = 0 THEN [active |-> NULL, notes |-> <<done>>]
             ELSE [active |-> NULL,
                   notes |-> <<done, Speak("alleAbgeschlossen", closedLists[k].title),
                               Speak("alleAbgeschlossen", closedLists[k].title)>>]
    ELSE [active |-> [prev EXCEPT !.timeLeftInSeconds = prev.timeLeftInSeconds - 1],
          notes |-> <<>>]

\* the updater the interval callback passes to setActiveRoutineState,
\* lines 641-672, with the `lists` the callback closed over
tickUpdater(prev, closedLists) ==
    IF prev = NULL THEN [active |-> NULL, notes |-> <<>>]
    ELSE IF prev.timeLeftInSeconds <= 1
    THEN LET done == BeepThenSpeak("istFertig", prev.routineName)
             k == findList(closedLists, prev.listId)
             nextRoutineIndex == prev.currentRoutineIndex + 1
         IN  IF k = 0 THEN [active |-> NULL, notes |-> <<done>>]
             ELSE IF nextRoutineIndex < Len(closedLists[k].routines)
             THEN LET nextRoutine == closedLists[k].routines[nextRoutineIndex + 1]
                  IN  [active |-> [listId |-> prev.listId,
                                   routineId |-> nextRoutine.id,
                                   currentRoutineIndex |-> nextRoutineIndex,
                                   timeLeftInSeconds |-> nextRoutine.durationSeconds,
                                   routineName |-> nextRoutine.name],
                       notes |-> <<done>>]
             ELSE [active |-> NULL,
                   notes |-> <<done, Speak("alleAbgeschlossen", closedLists[k].title)>>]
    ELSE [active |-> [prev EXCEPT !.timeLeftInSeconds = prev.timeLeftInSeconds - 1],
          notes |-> <<>>]

\* one firing of the armed interval iv, lines 640-673, and its commit
Tick(iv) ==
    LET prev == activeRoutineState
        u == tickUpdater(prev, iv.lists)
        \* lines 643 and 647: clearInterval(timerIdRef.current)
        cleared == prev = NULL \/ prev.timeLeftInSeconds <= 1
        ivs0 == IF cleared /\ timerIdRef # NoTimer
                THEN clearInterval(intervals, timerIdRef) ELSE intervals
        changed == prev # NULL
        e == IF changed THEN timerEffect(u.active, lists, timerIdRef, ivs0)
             ELSE [ref |-> timerIdRef, ivs |-> ivs0]
    IN  /\ iv \in intervals
        /\ activeRoutineState' = u.active
        /\ timerIdRef' = e.ref
        /\ intervals' = e.ivs
        /\ emitted' = u.notes
        /\ UNCHANGED <<lists, idCounter, moveCount>>

----------------------------------------------------------------------------
(* The program *)

ListPositions == 1..Len(lists)
CardIndices(k) == 0..(Len(lists[k].routines) - 1)

\* every handler the user can trigger, over the given typed inputs; the
\* creation of lists and routines and the moving of cards stop at the bounds.
\* No pure function is called on its own while the program runs.
Commands(listNames, names, durations, times, maxRoutines) ==
    \/ \E n \in listNames :
          Len(lists) < MaxLists /\ handleAddList(n) /\ UNCHANGED call
    \/ \E k \in ListPositions, n \in names, d \in durations, t \in times :
          /\ idCounter < maxRoutines
          /\ handleSubmitNewRoutine(k, n, d, t)
          /\ UNCHANGED call
    \/ \E k \in ListPositions, d \in durations, now \in NowDates :
          \E i \in CardIndices(k) : handleSaveDuration(k, i, d, now) /\ UNCHANGED call
    \/ \E k \in ListPositions, t \in times, now \in NowDates :
          handleSaveListStartTime(k, t, now) /\ UNCHANGED call
    \/ \E k \in ListPositions, now \in NowDates :
          \E i \in CardIndices(k) :
              /\ handleDeleteRoutine(lists[k].id, lists[k].routines[i + 1].id, now)
              /\ UNCHANGED call
    \/ \E k \in ListPositions :
          handleDeleteAllRoutinesInList(lists[k].id) /\ UNCHANGED call
    \/ \E ks \in ListPositions, kt \in ListPositions, now \in NowDates :
          \E i \in CardIndices(ks), targetIndex \in 0..Len(lists[kt].routines) :
              /\ moveCount < MaxMoves
              /\ handleDropOnCardContainer(ks, i, kt, targetIndex, now)
              /\ UNCHANGED call
    \/ \E sourceIndex \in 0..(Len(lists) - 1), targetIndex \in 0..Len(lists) :
          handleDropListInContainer(sourceIndex, targetIndex) /\ UNCHANGED call
    \/ \E k \in ListPositions :
          handleToggleStartStopList(lists[k].id) /\ UNCHANGED call

Next ==
    \/ Commands(ListNameInputs, NameInputs, ParsedDurations, TimeInputs, MaxRoutines)
    \/ \E iv \in intervals : Tick(iv) /\ UNCHANGED call

Spec == Init /\ [][Next]_vars

\* the handlers alone, no interval firing, over the inputs that cross midnight
NextDay ==
    Commands(ListNameInputs, DayNameInputs, DayParsedDurations, DayTimeInputs,
             MaxDayRoutines)

SpecDay == Init /\ [][NextDay]_vars

----------------------------------------------------------------------------
(* Properties *)

\* every routine of the collection, with the list position and index it is at
AllRoutines == { lists[k].routines[i] :
                 <<k, i>> \in { <<k, i>> \in ListPositions \X (1..MaxDayRoutines) :
                                    i <= Len(lists[k].routines) } }

\* a time string "HH:MM:SS" read as seconds of the day
SecondsOfDay(t) == t[1] * 3600 + t[2] * 60 + t[3]

\* C1: in every state the handlers can reach, every list is a chain: each
\* routine but the first starts at the end time of the routine before it.
C1_ChainInvariant ==
    \A k \in ListPositions :
        \A i \in 2..Len(lists[k].routines) :
            lists[k].routines[i].startTime = lists[k].routines[i - 1].endTime

\* a list of three routines, reached through a move and a deletion or a move
\* between lists, whose chain runs over midnight
C1_Witness ==
    \E k \in ListPositions :
        /\ Len(lists[k].routines) = 3
        /\ moveCount = 1
        /\ lists[k].routines[1].startTime[1] = 23
        /\ lists[k].routines[3].startTime[1] = 0

\* C2 as stated: end = start + duration, start and end read as seconds of
\* the day.
C2_EndIsStartPlusDuration ==
    \A r \in AllRoutines :
        SecondsOfDay(r.endTime) = SecondsOfDay(r.startTime) + r.durationSeconds

\* C2 amended: end is start + duration as a time of day, that is modulo one
\* day (a routine shorter than a day that runs over midnight ends at an
\* earlier time of day than it starts).
C2_EndIsStartPlusDurationModDay ==
    \A r \in AllRoutines :
        SecondsOfDay(r.endTime) =
            (SecondsOfDay(r.startTime) + r.durationSeconds) % 86400

\* a routine that runs over midnight, and the routine chained after it
C2_Witness ==
    \E r \in AllRoutines :
        /\ r.startTime = <<23, 59, 0>>
        /\ r.durationSeconds = 60
        /\ r.endTime = <<0, 0, 0>>
        /\ \E q \in AllRoutines :
               q.startTime = <<0, 0, 0>> /\ q.endTime = <<0, 0, 1>>

----------------------------------------------------------------------------
(* The active timer: properties *)

\* the position of the list the timer runs on, 0 when no list has that id
ActiveK == findList(lists, activeRoutineState.listId)

\* the running routine is the last one of its list
OnLastRoutine ==
    activeRoutineState.currentRoutineIndex + 1 >= Len(lists[ActiveK].routines)

\* how many notifications of the given kind a step emitted
Count(notes, tpl) == Cardinality({ n \in 1..Len(notes) : notes[n].text.tpl = tpl })

\* C3: there is one timer at most (one active state, naming one list), and
\* while it is Running it names an existing list, an index inside that
\* list's routines, and the id of the routine now at that index.
C3_ActiveReferenceValid ==
    Running =>
        /\ Cardinality({ k \in ListPositions :
                             lists[k].id = activeRoutineState.listId }) = 1
        /\ activeRoutineState.currentRoutineIndex \in CardIndices(ActiveK)
        /\ lists[ActiveK].routines[activeRoutineState.currentRoutineIndex + 1].id
               = activeRoutineState.routineId

\* the timer has advanced to the second routine of the second list on screen
C3_Witness ==
    /\ Running
    /\ ActiveK = 2
    /\ activeRoutineState.currentRoutineIndex = 1
    /\ Len(lists[2].routines) = 2

\* C4: a tick while Running with remaining r on index k: r > 1 keeps list and
\* index and leaves r - 1; otherwise it announces routine k by name and
\* moves to index k + 1 with that routine's duration, or, when there is no
\* such routine, announces the list as complete and goes Idle.
C4_TickStep ==
    [][\A iv \in intervals :
          (Running /\ Tick(iv)) =>
              LET r == activeRoutineState.timeLeftInSeconds
                  k == activeRoutineState.currentRoutineIndex
                  routines == lists[ActiveK].routines
              IN  IF r > 1
                  THEN /\ activeRoutineState' =
                              [activeRoutineState EXCEPT !.timeLeftInSeconds = r - 1]
                       /\ emitted' = <<>>
                  ELSE /\ emitted' # <<>>
                       /\ emitted'[1] = BeepThenSpeak("istFertig", routines[k + 1].name)
                       /\ IF k + 1 < Len(routines)
                          THEN /\ activeRoutineState' # NULL
                               /\ activeRoutineState'.listId = activeRoutineState.listId
                               /\ activeRoutineState'.currentRoutineIndex = k + 1
                               /\ activeRoutineState'.routineId = routines[k + 2].id
                               /\ activeRoutineState'.timeLeftInSeconds =
                                      routines[k + 2].durationSeconds
                               /\ Len(emitted') = 1
                          ELSE /\ activeRoutineState' = NULL
                               /\ Len(emitted') = 2
                               /\ emitted'[2] =
                                      Speak("alleAbgeschlossen", lists[ActiveK].title)
       ]_vars

\* a routine of two seconds was counted down and announced, and the timer
\* now runs the routine after it
C4_Witness ==
    /\ Running
    /\ activeRoutineState.currentRoutineIndex = 1
    /\ lists[ActiveK].routines[1].durationSeconds = 2
    /\ emitted = <<BeepThenSpeak("istFertig", lists[ActiveK].routines[1].name)>>

\* C5: the tick that completes the last routine of the list leaves the timer
\* Idle with no interval armed, announces the list as complete exactly once,
\* and announces exactly one routine as complete: the last one.
C5_LastRoutineCompletes ==
    [][\A iv \in intervals :
          (/\ Running
           /\ activeRoutineState.timeLeftInSeconds <= 1
           /\ OnLastRoutine
           /\ Tick(iv)) =>
              /\ activeRoutineState' = NULL
              /\ intervals' = {}
              /\ Count(emitted', "alleAbgeschlossen") = 1
              /\ Count(emitted', "istFertig") = 1
              /\ \E n \in 1..Len(emitted') :
                    emitted'[n] =
                        BeepThenSpeak("istFertig",
                            lists[ActiveK].routines[Len(lists[ActiveK].routines)].name)
       ]_vars

\* a list of two routines has run to its end
C5_Witness ==
    /\ ~Running
    /\ Len(emitted) = 2
    /\ \E k \in ListPositions :
          /\ Len(lists[k].routines) = 2
          /\ emitted[1] = BeepThenSpeak("istFertig", lists[k].routines[2].name)
          /\ emitted[2] = Speak("alleAbgeschlossen", lists[k].title)

\* a stop command on the running list
StopCommand == handleToggleStartStopList(activeRoutineState.listId)

\* a mutation of the running list that invalidates the timer
InvalidatingMutation ==
    \/ \E k \in ListPositions, d \in ParsedDurations, now \in NowDates :
          \E i \in CardIndices(k) :
              lists[k].id = activeRoutineState.listId /\ handleSaveDuration(k, i, d, now)
    \/ \E k \in ListPositions, t \in TimeInputs, now \in NowDates :
          lists[k].id = activeRoutineState.listId /\ handleSaveListStartTime(k, t, now)
    \/ \E k \in ListPositions, now \in NowDates :
          \E i \in CardIndices(k) :
              /\ lists[k].id = activeRoutineState.listId
              /\ handleDeleteRoutine(lists[k].id, lists[k].routines[i + 1].id, now)
    \/ \E k \in ListPositions :
          /\ lists[k].id = activeRoutineState.listId
          /\ handleDeleteAllRoutinesInList(lists[k].id)
    \/ \E ks \in ListPositions, kt \in ListPositions, now \in NowDates :
          \E i \in CardIndices(ks), targetIndex \in 0..Len(lists[kt].routines) :
              /\ activeRoutineState.listId \in { lists[ks].id, lists[kt].id }
              /\ handleDropOnCardContainer(ks, i, kt, targetIndex, now)

\* the tick that completes the last routine
LastRoutineCompleting ==
    \E iv \in intervals :
        activeRoutineState.timeLeftInSeconds <= 1 /\ OnLastRoutine /\ Tick(iv)

\* C6: a step from Running to Idle is exactly one of a stop command on the
\* running list, a mutation that invalidates the timer, or the completion
\* of the last routine.
C6_RunningToIdleCauses ==
    [][(Running /\ activeRoutineState' = NULL) =>
          /\ StopCommand \/ InvalidatingMutation \/ LastRoutineCompleting
          /\ ~(StopCommand /\ InvalidatingMutation)
          /\ ~(StopCommand /\ LastRoutineCompleting)
          /\ ~(InvalidatingMutation /\ LastRoutineCompleting)
       ]_vars

\* C7: a start command on a list that has a routine, given while Idle, makes
\* the timer run that list at index 0 with the first routine's duration as
\* the remaining time, arms its interval and leaves the lists as they were.
C7_StartFromIdle ==
    [][\A k \in ListPositions :
          (/\ ~Running
           /\ Len(lists[k].routines) > 0
           /\ handleToggleStartStopList(lists[k].id)) =>
              /\ activeRoutineState' # NULL
              /\ activeRoutineState'.listId = lists[k].id
              /\ activeRoutineState'.currentRoutineIndex = 0
              /\ activeRoutineState'.routineId = lists[k].routines[1].id
              /\ activeRoutineState'.timeLeftInSeconds =
                     lists[k].routines[1].durationSeconds
              /\ Cardinality(intervals') = 1
              /\ lists' = lists
       ]_vars

\* the timer was just started on a list whose first routine takes two seconds
C7_Witness ==
    /\ Running
    /\ activeRoutineState.currentRoutineIndex = 0
    /\ activeRoutineState.timeLeftInSeconds = 2
    /\ lists[ActiveK].routines[1].durationSeconds = 2
    /\ emitted = <<>>

\* C8: a start command on a list without routines, given while Idle, leaves
\* the timer Idle and the lists as they were, and announces that the list
\* has nothing to start.
C8_StartEmptyFromIdle ==
    [][\A k \in ListPositions :
          (/\ ~Running
           /\ Len(lists[k].routines) = 0
           /\ handleToggleStartStopList(lists[k].id)) =>
              /\ activeRoutineState' = NULL
              /\ intervals' = {}
              /\ lists' = lists
              /\ emitted' =
                     <<BeepThenSpeak("keineRoutinenZumStarten", lists[k].title)>>
       ]_vars

\* Idle, just after the announcement that a list has nothing to start
C8_Witness ==
    /\ ~Running
    /\ Len(emitted) = 1
    /\ emitted[1].text.tpl = "keineRoutinenZumStarten"
    /\ intervals = {}

\* C9: a start command on a list B that has a routine, given while the timer
\* runs another list A, replaces the active state by B at index 0 with B's
\* first duration, announces nothing, and leaves armed only the interval of
\* the new state; and a tick never moves the timer to another list than
\* the one it runs.
C9_StartOtherList ==
    [][/\ \A k \in ListPositions :
             (/\ Running
              /\ lists[k].id # activeRoutineState.listId
              /\ Len(lists[k].routines) > 0
              /\ handleToggleStartStopList(lists[k].id)) =>
                 /\ activeRoutineState' = startState(lists[k])
                 /\ emitted' = <<>>
                 /\ lists' = lists
                 /\ \A iv \in intervals' : iv.state = activeRoutineState'
                 /\ Cardinality(intervals') = 1
       /\ \A iv \in intervals :
             (Running /\ Tick(iv)) =>
                 /\ iv.state.listId = activeRoutineState.listId
                 /\ (activeRoutineState' # NULL =>
                        activeRoutineState'.listId = activeRoutineState.listId)
                 /\ \A n \in 1..Len(emitted') :
                        emitted'[n].text.tpl = "istFertig" =>
                            emitted'[n].text.arg = activeRoutineState.routineName
       ]_vars

\* the timer runs the second list from its start while the first list, which
\* has a routine too, is not running
C9_Witness ==
    /\ Running
    /\ Len(lists) = 2
    /\ ActiveK = 2
    /\ activeRoutineState.currentRoutineIndex = 0
    /\ Len(lists[1].routines) > 0
    /\ emitted = <<>>
    /\ Cardinality(intervals) = 1

\* C10: at most one interval is armed; an armed interval is the one the ref
\* names and was armed for the present state and the present lists; and no
\* interval is armed while the timer is Idle.
C10_OneCurrentInterval ==
    /\ Cardinality(intervals) <= 1
    /\ \A iv \in intervals :
          /\ iv.id = timerIdRef
          /\ iv.state = activeRoutineState
          /\ iv.lists = lists
    /\ Running <=> intervals # {}

\* the timer was invalidated by a move and no interval is left armed
C10_Witness ==
    /\ ~Running
    /\ intervals = {}
    /\ timerIdRef = NoTimer
    /\ emitted = <<BeepThenSpeak("gestopptVerschieben", <<>>)>>

----------------------------------------------------------------------------
(* Mutations and the timer: properties *)

\* the notifications that tell the user the timer was invalidated
InvalidationTemplates ==
    { "gestopptGeloescht", "gestopptAenderungen", "gestopptZeitaenderung",
      "gestopptAlleGeloescht", "gestopptVerschieben" }

\* C11: deleting a routine of the list the timer runs on leaves the timer
\* Idle and announces the invalidation once whenever the list becomes empty,
\* the deleted routine is the running one, or the running index no longer
\* holds the running routine's id after the deletion; deleting the only
\* routine of the running list is one such case.
C11_DeleteInvalidates ==
    [][\A k \in ListPositions, now \in NowDates :
          \A i \in CardIndices(k) :
              (/\ activeOn(lists[k].id)
               /\ handleDeleteRoutine(lists[k].id, lists[k].routines[i + 1].id, now)) =>
                  LET deletedId == lists[k].routines[i + 1].id
                      idx == activeRoutineState.currentRoutineIndex
                      after == lists'[k].routines
                      stillThere == /\ idx < Len(after)
                                    /\ after[idx + 1].id = activeRoutineState.routineId
                  IN  /\ Len(after) = Len(lists[k].routines) - 1
                      /\ (\/ Len(after) = 0
                          \/ deletedId = activeRoutineState.routineId
                          \/ ~stillThere) =>
                             /\ activeRoutineState' = NULL
                             /\ intervals' = {}
                             /\ Len(emitted') = 1
                             /\ emitted'[1].text.tpl \in InvalidationTemplates
                      /\ Len(lists[k].routines) = 1 => activeRoutineState' = NULL
       ]_vars

\* the running routine moved down an index when the routine before it was
\* deleted, and the timer was stopped for it
C11_Witness ==
    /\ ~Running
    /\ emitted = <<BeepThenSpeak("gestopptAenderungen", <<>>)>>
    /\ \E k \in ListPositions : Len(lists[k].routines) = 1

\* routines rs form a chain from index 0: each starts where the one before ends
Chained(rs) == \A i \in 2..Len(rs) : rs[i].startTime = rs[i - 1].endTime

\* C12: a move of a routine from list X to list Y (X = Y included) leaves the
\* timer Idle whenever it runs X or Y, whichever routine is moved, and after
\* the move X and Y are each a chain from index 0.
C12_MoveInvalidatesAndChains ==
    [][\A ks \in ListPositions, kt \in ListPositions, now \in NowDates :
          \A i \in CardIndices(ks), targetIndex \in 0..Len(lists[kt].routines) :
              (/\ moveCount' = moveCount + 1
               /\ handleDropOnCardContainer(ks, i, kt, targetIndex, now)) =>
                  /\ (activeOn(lists[ks].id) \/ activeOn(lists[kt].id)) =>
                         activeRoutineState' = NULL /\ intervals' = {}
                  /\ Chained(lists'[ks].routines)
                  /\ Chained(lists'[kt].routines)
       ]_vars

\* the timer was stopped by a move that put the routine created second in
\* front of the routine created first
C12_Witness ==
    /\ ~Running
    /\ moveCount = 1
    /\ emitted = <<BeepThenSpeak("gestopptVerschieben", <<>>)>>
    /\ \E k \in ListPositions :
          /\ Len(lists[k].routines) = 2
          /\ lists[k].routines[1].id = 2
          /\ lists[k].routines[2].id = 1

\* C13: a duration update of a present routine, a start time update of a
\* non-empty list and a deletion of all routines leave the timer Idle when
\* it runs the list they are applied to, and leave the active state as it is
\* when it runs another list.
C13_ListMutationsAndTimer ==
    [][\A k \in ListPositions, now \in NowDates :
          LET applied ==
                  \/ \E i \in CardIndices(k), d \in 0..2 :
                        handleUpdateRoutineDurationInList(
                            lists[k].id, lists[k].routines[i + 1].id, d, now)
                  \/ \E t \in TimeInputs \ {NoString} :
                        /\ Len(lists[k].routines) > 0
                        /\ handleUpdateListStartTime(lists[k].id, Append(t, 0), now)
                  \/ handleDeleteAllRoutinesInList(lists[k].id)
          IN  (Running /\ applied) =>
                  IF activeRoutineState.listId = lists[k].id
                  THEN activeRoutineState' = NULL /\ intervals' = {}
                  ELSE activeRoutineState' = activeRoutineState
       ]_vars

\* the timer was stopped by a change of a duration or of the list's start
C13_Witness ==
    /\ ~Running
    /\ intervals = {}
    /\ emitted = <<BeepThenSpeak("gestopptZeitaenderung", <<>>)>>

----------------------------------------------------------------------------
(* recalculateTimesInList on its own, lines 694-715: any list of up to      *)
(* MaxRecalcLen routines, chained or not, and any start index               *)

RecalcTimes == { <<8, 0, 0>>, <<23, 59, 30>> }
RecalcDurations == { 0, 60 }

RecalcRoutines ==
    [id : {0}, name : {<<"A">>}, startTime : RecalcTimes,
     durationSeconds : RecalcDurations, endTime : RecalcTimes]

\* the routine sequences, the routine at index i carrying the id i + 1
RecalcSequences ==
    { [i \in 1..Len(rs) |-> [rs[i] EXCEPT !.id = i]] :
          rs \in UNION { [1..n -> RecalcRoutines] : n \in 0..MaxRecalcLen } }

InitRecalc ==
    /\ lists = <<>>
    /\ activeRoutineState = NULL
    /\ timerIdRef = NoTimer
    /\ intervals = {}
    /\ emitted = <<>>
    /\ idCounter = 0
    /\ moveCount = 0
    /\ call \in { [op |-> "recalculateTimesInList",
                   list |-> [id |-> 1, title |-> <<"L">>, routines |-> rs],
                   startIndex |-> f,
                   done |-> FALSE,
                   result |-> [id |-> 1, title |-> <<"L">>, routines |-> rs]] :
                  rs \in RecalcSequences, f \in 0..MaxRecalcLen }

\* the call returns
ApplyRecalc(now) ==
    /\ call.op = "recalculateTimesInList"
    /\ ~call.done
    /\ call' = [call EXCEPT
                   !.done = TRUE,
                   !.result = recalculateTimesInList(call.list, call.startIndex, now)]
    /\ UNCHANGED <<lists, activeRoutineState, timerIdRef, intervals, emitted,
                   idCounter, moveCount>>

NextRecalc == \E now \in NowDates : ApplyRecalc(now)

SpecRecalc == InitRecalc /\ [][NextRecalc]_vars

\* what C14 says of the returned sequence `out` for the sequence `in` and the
\* start index f, but for the end times of the indices after f
RecalcShape(in, out, f) ==
    /\ Len(out) = Len(in)
    /\ \A j \in 1..Len(out) :
          /\ j - 1 > f => out[j].startTime = out[j - 1].endTime
          /\ (j - 1 = f /\ f = 0) => out[j].startTime = in[j].startTime
          /\ (j - 1 = f /\ f > 0) => out[j].startTime = in[j - 1].endTime
          /\ j - 1 < f => out[j] = in[j]

\* C14 as stated: the returned sequence has the shape above and, at every
\* index after the start index, end = start + duration, the times read as
\* seconds of the day; the empty sequence gives the empty sequence.
C14_RecalculateContract ==
    (call.op = "recalculateTimesInList" /\ call.done) =>
        LET in == call.list.routines
            out == call.result.routines
        IN  /\ RecalcShape(in, out, call.startIndex)
            /\ \A j \in 1..Len(out) :
                  j - 1 > call.startIndex =>
                      SecondsOfDay(out[j].endTime) =
                          SecondsOfDay(out[j].startTime) + out[j].durationSeconds

\* C14 amended: the same, the end being start + duration on the 24-hour
\* clock, that is modulo one day.
C14_RecalculateContractModDay ==
    (call.op = "recalculateTimesInList" /\ call.done) =>
        LET in == call.list.routines
            out == call.result.routines
        IN  /\ RecalcShape(in, out, call.startIndex)
            /\ \A j \in 1..Len(out) :
                  j - 1 > call.startIndex =>
                      SecondsOfDay(out[j].endTime) =
                          (SecondsOfDay(out[j].startTime) + out[j].durationSeconds)
                              % 86400

\* a recalculation from index 1 of three routines that were not chained: the
\* first is left as it was, the second starts at the first one's end, and the
\* third, chained to the second, runs over midnight
C14_Witness ==
    /\ call.op = "recalculateTimesInList"
    /\ call.done
    /\ call.startIndex = 1
    /\ Len(call.list.routines) = 3
    /\ call.list.routines[1].endTime # call.list.routines[2].startTime
    /\ call.result.routines[1] = call.list.routines[1]
    /\ call.result.routines[3].startTime = <<23, 59, 30>>
    /\ call.result.routines[3].endTime = <<0, 0, 30>>

----------------------------------------------------------------------------
(* The list mutations: properties *)

\* the lists at the positions other than k (and, for the two-place form,
\* other than k and j) are what they were
OthersUnchanged(k, j) ==
    /\ Len(lists') = Len(lists)
    /\ \A o \in ListPositions \ {k, j} : lists'[o] = lists[o]

AddExample ==
    addRoutineToList(<<[id |-> 1, title |-> <<"L">>, routines |-> <<>>]>>,
                     1, <<"A">>, 1500, <<8, 0>>, 1)
        = <<[id |-> 1, title |-> <<"L">>,
             routines |-> <<[id |-> 1, name |-> <<"A">>, startTime |-> <<8, 0, 0>>,
                             durationSeconds |-> 1500, endTime |-> <<8, 25, 0>>]>>]>>

\* what C16 says of a submission to the empty list at position k but for the
\* end time: one routine, starting at the typed HH:MM with :00 seconds, the
\* other lists and the active state as they were
AddToEmptyShape(k, n, d, t) ==
    /\ Len(lists'[k].routines) = 1
    /\ lists'[k].routines[1].startTime = Append(t, 0)
    /\ lists'[k].routines[1].durationSeconds = d[1]
    /\ lists'[k].routines[1].name = n
    /\ OthersUnchanged(k, k)
    /\ activeRoutineState' = activeRoutineState

\* C16 as stated: a routine added to an empty list with the start time HH:MM
\* starts HH:MM:00 and has end = start + duration, the times read as seconds
\* of the day; the other lists and the timer are as they were; and the
\* example of 1500 s from 08:00 gives 08:25:00.
C16_AddToEmptyList ==
    [][\A k \in ListPositions, n \in DayNameInputs, d \in DayParsedDurations,
          t \in DayTimeInputs :
          (/\ Len(lists[k].routines) = 0
           /\ idCounter' = idCounter + 1
           /\ handleSubmitNewRoutine(k, n, d, t)) =>
              /\ AddToEmptyShape(k, n, d, t)
              /\ SecondsOfDay(lists'[k].routines[1].endTime) =
                     SecondsOfDay(lists'[k].routines[1].startTime) + d[1]
              /\ AddExample
       ]_vars

\* C16 amended: the same, the end being start + duration on the 24-hour
\* clock, that is modulo one day.
C16_AddToEmptyListModDay ==
    [][\A k \in ListPositions, n \in DayNameInputs, d \in DayParsedDurations,
          t \in DayTimeInputs :
          (/\ Len(lists[k].routines) = 0
           /\ idCounter' = idCounter + 1
           /\ handleSubmitNewRoutine(k, n, d, t)) =>
              /\ AddToEmptyShape(k, n, d, t)
              /\ SecondsOfDay(lists'[k].routines[1].endTime) =
                     (SecondsOfDay(lists'[k].routines[1].startTime) + d[1]) % 86400
              /\ AddExample
       ]_vars

\* while the timer runs one list, a first routine of one minute was added to
\* the other list with the start time 23:59
C16_Witness ==
    /\ Running
    /\ \E k \in ListPositions :
          /\ lists[k].id # activeRoutineState.listId
          /\ Len(lists[k].routines) = 1
          /\ lists[k].routines[1].id = idCounter
          /\ lists[k].routines[1].startTime = <<23, 59, 0>>
          /\ lists[k].routines[1].endTime = <<0, 0, 0>>

\* the example of C17: routine A, 1500 s from 08:00:00, set to 600 s ends
\* 08:10:00, and the routine after it starts there
UpdateExample ==
    updateRoutineDurationInList(
        <<[id |-> 1, title |-> <<"L">>,
           routines |-> <<[id |-> 1, name |-> <<"A">>, startTime |-> <<8, 0, 0>>,
                           durationSeconds |-> 1500, endTime |-> <<8, 25, 0>>],
                          [id |-> 2, name |-> <<"B">>, startTime |-> <<8, 25, 0>>,
                           durationSeconds |-> 60, endTime |-> <<8, 26, 0>>]>>]>>,
        1, 1, 600, 43200000)
        = <<[id |-> 1, title |-> <<"L">>,
             routines |-> <<[id |-> 1, name |-> <<"A">>, startTime |-> <<8, 0, 0>>,
                             durationSeconds |-> 600, endTime |-> <<8, 10, 0>>],
                            [id |-> 2, name |-> <<"B">>, startTime |-> <<8, 10, 0>>,
                             durationSeconds |-> 60, endTime |-> <<8, 11, 0>>]>>]>>

\* what C17 says of the routines `after` an update of the routine at index i
\* of `before` to the duration d, but for the edited routine's end time
UpdateDurationShape(before, after, i, d) ==
    /\ Len(after) = Len(before)
    /\ after[i + 1].durationSeconds = d
    /\ after[i + 1].startTime = before[i + 1].startTime
    /\ \A j \in 1..Len(after) :
          /\ after[j].id = before[j].id
          /\ after[j].name = before[j].name
          /\ j < i + 1 => after[j] = before[j]
          /\ j > i + 1 =>
                /\ after[j].startTime = after[j - 1].endTime
                /\ after[j].durationSeconds = before[j].durationSeconds
                /\ after[j].endTime =
                       formatTimeFromDate(
                           addSecondsToDate(parseTimeToDate(after[j].startTime),
                                            after[j].durationSeconds))

\* C17 as stated: updating the duration of the routine at index k to d sets
\* its duration, keeps its start, sets its end to start + d (the times read
\* as seconds of the day), chains every routine after it, leaves those
\* before it alone; and the example of 1500 s to 600 s gives 08:10:00.
C17_UpdateDuration ==
    [][\A k \in ListPositions, d \in DayParsedDurations, now \in NowDates :
          \A i \in CardIndices(k) :
              (/\ idCounter' = idCounter
               /\ moveCount' = moveCount
               /\ handleSaveDuration(k, i, d, now)) =>
                  /\ UpdateDurationShape(lists[k].routines, lists'[k].routines,
                                         i, d[1])
                  /\ SecondsOfDay(lists'[k].routines[i + 1].endTime) =
                         SecondsOfDay(lists'[k].routines[i + 1].startTime) + d[1]
                  /\ OthersUnchanged(k, k)
                  /\ UpdateExample
       ]_vars

\* C17 amended: the same, the end being start + d on the 24-hour clock, that
\* is modulo one day.
C17_UpdateDurationModDay ==
    [][\A k \in ListPositions, d \in DayParsedDurations, now \in NowDates :
          \A i \in CardIndices(k) :
              (/\ idCounter' = idCounter
               /\ moveCount' = moveCount
               /\ handleSaveDuration(k, i, d, now)) =>
                  /\ UpdateDurationShape(lists[k].routines, lists'[k].routines,
                                         i, d[1])
                  /\ SecondsOfDay(lists'[k].routines[i + 1].endTime) =
                         (SecondsOfDay(lists'[k].routines[i + 1].startTime) + d[1])
                             % 86400
                  /\ OthersUnchanged(k, k)
                  /\ UpdateExample
       ]_vars

\* the running list's first routine, starting 23:59:00, has the duration
\* 60 s and ends 00:00:00, the second of its three routines starts there,
\* and the timer was stopped for the change of a time
C17_Witness ==
    /\ ~Running
    /\ emitted = <<BeepThenSpeak("gestopptZeitaenderung", <<>>)>>
    /\ moveCount = 0
    /\ \E k \in ListPositions :
          /\ Len(lists[k].routines) = 3
          /\ lists[k].routines[1].startTime = <<23, 59, 0>>
          /\ lists[k].routines[1].durationSeconds = 60
          /\ lists[k].routines[1].endTime = <<0, 0, 0>>
          /\ lists[k].routines[2].startTime = <<0, 0, 0>>
          /\ lists[k].routines[3].startTime = lists[k].routines[2].endTime

\* handleUpdateListStartTime called for a list without routines returns the
\* lists it was given
UpdateStartOfEmptyList ==
    updateListStartTime(<<[id |-> 1, title |-> <<"L">>, routines |-> <<>>]>>,
                        1, <<9, 30, 0>>, 43200000)
        = <<[id |-> 1, title |-> <<"L">>, routines |-> <<>>]>>

\* C18: saving the start time t of a list that has routines sets the first
\* routine's start to t and recalculates the whole list: every routine ends
\* its duration after its start on the 24-hour clock and starts where the one
\* before it ends, with the durations and the order kept; for a list without
\* routines nothing changes.
C18_UpdateListStartTime ==
    [][\A k \in ListPositions, t \in DayTimeInputs, now \in NowDates :
          (/\ idCounter' = idCounter
           /\ moveCount' = moveCount
           /\ handleSaveListStartTime(k, t, now)) =>
              LET before == lists[k].routines
                  after == lists'[k].routines
              IN  /\ OthersUnchanged(k, k)
                  /\ UpdateStartOfEmptyList
                  /\ IF Len(before) = 0
                     THEN lists' = lists /\ activeRoutineState' = activeRoutineState
                     ELSE /\ Len(after) = Len(before)
                          /\ after[1].startTime = Append(t, 0)
                          /\ Chained(after)
                          /\ \A j \in 1..Len(after) :
                                /\ after[j].id = before[j].id
                                /\ after[j].name = before[j].name
                                /\ after[j].durationSeconds = before[j].durationSeconds
                                /\ SecondsOfDay(after[j].endTime) =
                                       (SecondsOfDay(after[j].startTime)
                                            + after[j].durationSeconds) % 86400
       ]_vars

\* the running list of three routines of one second was given the start
\* time 23:59 and the timer was stopped for it
C18_Witness ==
    /\ ~Running
    /\ emitted = <<BeepThenSpeak("gestopptZeitaenderung", <<>>)>>
    /\ \E k \in ListPositions :
          /\ Len(lists[k].routines) = 3
          /\ lists[k].routines[1].startTime = <<23, 59, 0>>
          /\ lists[k].routines[3].endTime = <<23, 59, 3>>

\* the ids of the routines rs, in their order
Ids(rs) == [j \in 1..Len(rs) |-> rs[j].id]

\* what C19 says of a move of the card at index i of the list at position ks
\* to the list at position kt but for the place the card takes: the card
\* leaves the source, is among the target's routines once, with its name and
\* duration, and the other routines of both lists keep their order
MoveShape(ks, i, kt) ==
    LET card == lists[ks].routines[i + 1]
        others == filterOut(lists[kt].routines, card.id)
    IN  /\ Ids(filterOut(lists'[kt].routines, card.id)) = Ids(others)
        /\ Len(lists'[kt].routines) = Len(others) + 1
        /\ \E j \in 1..Len(lists'[kt].routines) :
              /\ lists'[kt].routines[j].id = card.id
              /\ lists'[kt].routines[j].name = card.name
              /\ lists'[kt].routines[j].durationSeconds = card.durationSeconds
        /\ ks # kt =>
              Ids(lists'[ks].routines) = Ids(filterOut(lists[ks].routines, card.id))
        /\ OthersUnchanged(ks, kt)

\* C19 as stated: the moved card stands at index targetIndex of the target's
\* routines, counted after its removal when it is moved within a list.
C19_MoveRoutine ==
    [][\A ks \in ListPositions, kt \in ListPositions, now \in NowDates :
          \A i \in CardIndices(ks), targetIndex \in 0..Len(lists[kt].routines) :
              (/\ moveCount' = moveCount + 1
               /\ handleDropOnCardContainer(ks, i, kt, targetIndex, now)) =>
                  /\ MoveShape(ks, i, kt)
                  /\ targetIndex < Len(lists'[kt].routines)
                  /\ lists'[kt].routines[targetIndex + 1].id
                         = lists[ks].routines[i + 1].id
       ]_vars

\* C19 amended: the moved card stands at index targetIndex of the target's
\* routines, or behind the last of them when targetIndex is greater than
\* their number after the removal.
C19_MoveRoutineClamped ==
    [][\A ks \in ListPositions, kt \in ListPositions, now \in NowDates :
          \A i \in CardIndices(ks), targetIndex \in 0..Len(lists[kt].routines) :
              (/\ moveCount' = moveCount + 1
               /\ handleDropOnCardContainer(ks, i, kt, targetIndex, now)) =>
                  LET card == lists[ks].routines[i + 1]
                      others == filterOut(lists[kt].routines, card.id)
                      place == IF targetIndex > Len(others) THEN Len(others)
                               ELSE targetIndex
                  IN  /\ MoveShape(ks, i, kt)
                      /\ lists'[kt].routines[place + 1].id = card.id
       ]_vars

\* the routine created first was moved behind the two others of its list
C19_Witness ==
    /\ moveCount = 1
    /\ \E k \in ListPositions :
          /\ Ids(lists[k].routines) = <<2, 3, 1>>
          /\ Chained(lists[k].routines)

\* C20: dropping the list dragged from index sourceIndex at the index
\* targetIndex only reorders the lists: the dragged list, as it was, stands
\* at targetIndex - 1 when sourceIndex < targetIndex and at targetIndex
\* otherwise, the other lists follow one another as before, each as it was,
\* and the active state is what it was.
C20_MoveList ==
    [][\A sourceIndex \in 0..(Len(lists) - 1), targetIndex \in 0..Len(lists) :
          (/\ idCounter' = idCounter
           /\ moveCount' = moveCount
           /\ handleDropListInContainer(sourceIndex, targetIndex)) =>
              LET moved == lists[sourceIndex + 1]
                  place == IF sourceIndex < targetIndex THEN targetIndex - 1
                           ELSE targetIndex
              IN  /\ Len(lists') = Len(lists)
                  /\ lists'[place + 1] = moved
                  /\ filterOut(lists', moved.id) = filterOut(lists, moved.id)
                  /\ Len(filterOut(lists', moved.id)) = Len(lists) - 1
                  /\ activeRoutineState' = activeRoutineState
                  /\ Running => Cardinality(intervals') = 1
       ]_vars

\* the list created second now stands first, and the timer, started on the
\* list created first, has gone on to that list's second routine
C20_Witness ==
    /\ Len(lists) = 2
    /\ lists[1].id = 2
    /\ lists[2].id = 1
    /\ Running
    /\ activeRoutineState.listId = 1
    /\ activeRoutineState.currentRoutineIndex = 1


----------------------------------------------------------------------------
(* The handlers of App called with an id that names nothing, lines 746-874: *)
(* a routine that was deleted or is in another list, a list that does not   *)
(* exist.  `call` records the call the last step made.                      *)

\* ids a caller can hold: those generateId has handed out and one it has not
ListIds == 1..(MaxLists + 1)
RoutineIds == 1..(MaxRoutines + 1)

\* the list listId exists and has the routine routineId
KnownRoutine(listId, routineId) ==
    \E k \in ListPositions :
        /\ lists[k].id = listId
        /\ \E i \in 1..Len(lists[k].routines) : lists[k].routines[i].id = routineId

KnownList(listId) == \E k \in ListPositions : lists[k].id = listId

\* a call of the handler op for the list listId
Called(op, listId) == [op |-> op, listId |-> listId]

CallUpdateRoutineDuration(listId, routineId, d, now) ==
    /\ ~KnownRoutine(listId, routineId)
    /\ handleUpdateRoutineDurationInList(listId, routineId, d, now)
    /\ call' = Called("handleUpdateRoutineDurationInList", listId)

CallDeleteRoutine(listId, routineId, now) ==
    /\ ~KnownRoutine(listId, routineId)
    /\ handleDeleteRoutine(listId, routineId, now)
    /\ call' = Called("handleDeleteRoutine", listId)

CallMoveRoutine(cardId, sourceListId, targetListId, targetIndex, now) ==
    /\ ~(KnownRoutine(sourceListId, cardId) /\ KnownList(targetListId))
    /\ handleMoveRoutine(cardId, sourceListId, targetListId, targetIndex, now)
    /\ call' = Called("handleMoveRoutine", sourceListId)

\* the program is brought to a state by its own handlers and its timer, and
\* then a handler is called with an id that is not found
NextCalls ==
    \/ \E n \in ListNameInputs :
          Len(lists) < MaxLists /\ handleAddList(n) /\ call' = NoCall
    \/ \E k \in ListPositions, n \in NameInputs, d \in ParsedDurations,
          t \in TimeInputs :
          /\ idCounter < MaxRoutines
          /\ handleSubmitNewRoutine(k, n, d, t)
          /\ call' = NoCall
    \/ \E k \in ListPositions, now \in NowDates :
          \E i \in CardIndices(k) :
              /\ handleDeleteRoutine(lists[k].id, lists[k].routines[i + 1].id, now)
              /\ call' = NoCall
    \/ \E k \in ListPositions : handleToggleStartStopList(lists[k].id) /\ call' = NoCall
    \/ \E iv \in intervals : Tick(iv) /\ call' = NoCall
    \/ \E listId \in ListIds, routineId \in RoutineIds, d \in {0, 2}, now \in NowDates :
          CallUpdateRoutineDuration(listId, routineId, d, now)
    \/ \E listId \in ListIds, routineId \in RoutineIds, now \in NowDates :
          CallDeleteRoutine(listId, routineId, now)
    \/ \E cardId \in RoutineIds, sourceListId \in ListIds, targetListId \in ListIds,
          targetIndex \in 0..MaxRoutines, now \in NowDates :
          CallMoveRoutine(cardId, sourceListId, targetListId, targetIndex, now)

SpecCalls == Init /\ [][NextCalls]_vars

\* the lists, the active state, the interval and its handle are what they were
TimerAndListsUnchanged ==
    /\ lists' = lists
    /\ activeRoutineState' = activeRoutineState
    /\ intervals' = intervals
    /\ timerIdRef' = timerIdRef

\* C21: a move naming a card that is not in the source list, a source list
\* or a target list that does not exist, a deletion and a duration update
\* naming a routine that is not in the list leave the lists and the timer as
\* they were, and no card is counted as moved.
C21_UnknownIdIsNoOp ==
    [][/\ call'.op = "handleMoveRoutine" =>
            \A cardId \in RoutineIds, targetListId \in ListIds,
               targetIndex \in 0..MaxRoutines, now \in NowDates :
                (/\ ~(KnownRoutine(call'.listId, cardId) /\ KnownList(targetListId))
                 /\ handleMoveRoutine(cardId, call'.listId, targetListId,
                                      targetIndex, now))
                    => /\ TimerAndListsUnchanged
                       /\ moveCount' = moveCount
                       /\ emitted' = <<>>
       /\ call'.op = "handleDeleteRoutine" =>
            \A routineId \in RoutineIds, now \in NowDates :
                (/\ ~KnownRoutine(call'.listId, routineId)
                 /\ handleDeleteRoutine(call'.listId, routineId, now))
                    => TimerAndListsUnchanged /\ emitted' = <<>>
       /\ call'.op = "handleUpdateRoutineDurationInList" =>
            \A routineId \in RoutineIds, d \in {0, 2}, now \in NowDates :
                (/\ ~KnownRoutine(call'.listId, routineId)
                 /\ handleUpdateRoutineDurationInList(call'.listId, routineId, d, now))
                    => TimerAndListsUnchanged /\ emitted' = <<>>
      ]_vars

\* while the timer runs the second routine of a list, a deletion from that
\* list was called with a routine id that is not in it
C21_Witness ==
    /\ Running
    /\ call = Called("handleDeleteRoutine", activeRoutineState.listId)
    /\ activeRoutineState.currentRoutineIndex = 1
    /\ Len(lists[ActiveK].routines) = 2
    /\ Cardinality(intervals) = 1


----------------------------------------------------------------------------
(* The forms and what they reject, lines 238-247, 378-390 and 459-471.     *)
(* `call` records the submission the last step made when its input was one *)
(* the form has to reject.                                                 *)

\* names typed into the new-routine form: none, blank, proper
FormNameInputs == { <<>>, <<" ">>, <<"A">>, <<"B">> }
\* values of the start time field: cleared, HH:MM, and HH:MM:SS
FormTimeInputs == { <<>>, <<9, 30>>, <<9, 30, 15>> }

\* an empty name, or a duration that is invalid or not positive
InvalidNewRoutine(name, durationSec) ==
    IF durationSec = NullNumber THEN TRUE
    ELSE durationSec[1] <= 0 \/ \A c \in 1..Len(name) : name[c] = " "

\* a value that is not HH:MM
NotHHMM(timeStr) == Len(timeStr) # 2

Rejected(op, listId, bad) == IF bad THEN Called(op, listId) ELSE NoCall

NextForms ==
    \/ \E n \in ListNameInputs :
          Len(lists) < MaxLists /\ handleAddList(n) /\ call' = NoCall
    \/ \E k \in ListPositions, n \in FormNameInputs, d \in ParsedDurations,
          t \in TimeInputs :
          /\ InvalidNewRoutine(n, d) \/ idCounter < MaxRoutines
          /\ handleSubmitNewRoutine(k, n, d, t)
          /\ call' = Rejected("handleSubmitNewRoutine", lists[k].id,
                              InvalidNewRoutine(n, d))
    \/ \E k \in ListPositions, d \in ParsedDurations, now \in NowDates :
          \E i \in CardIndices(k) :
              /\ handleSaveDuration(k, i, d, now)
              /\ call' = Rejected("handleSaveDuration", lists[k].id, d = NullNumber)
    \/ \E k \in ListPositions, t \in FormTimeInputs, now \in NowDates :
          /\ handleSaveListStartTime(k, t, now)
          /\ call' = Rejected("handleSaveListStartTime", lists[k].id, NotHHMM(t))
    \/ \E k \in ListPositions : handleToggleStartStopList(lists[k].id) /\ call' = NoCall
    \/ \E iv \in intervals : Tick(iv) /\ call' = NoCall

SpecForms == Init /\ [][NextForms]_vars

\* C22: a new routine submitted with an empty name or with a duration that
\* is invalid or not positive, a duration edit saved with an invalid
\* duration, and a list start time saved with a value that is not HH:MM
\* leave the lists and the timer as they were; no routine is created and
\* nothing is announced.
C22_InvalidInputRejected ==
    [][\A k \in ListPositions :
          (call' # NoCall /\ lists[k].id = call'.listId) =>
              /\ call'.op = "handleSubmitNewRoutine" =>
                    \A n \in FormNameInputs, d \in ParsedDurations, t \in TimeInputs :
                        (InvalidNewRoutine(n, d) /\ handleSubmitNewRoutine(k, n, d, t))
                            => /\ TimerAndListsUnchanged
                               /\ idCounter' = idCounter
                               /\ emitted' = <<>>
              /\ call'.op = "handleSaveDuration" =>
                    \A i \in CardIndices(k), now \in NowDates :
                        handleSaveDuration(k, i, NullNumber, now)
                            => TimerAndListsUnchanged /\ emitted' = <<>>
              /\ call'.op = "handleSaveListStartTime" =>
                    \A t \in FormTimeInputs, now \in NowDates :
                        (NotHHMM(t) /\ handleSaveListStartTime(k, t, now))
                            => TimerAndListsUnchanged /\ emitted' = <<>>
      ]_vars

\* while the timer runs the second routine of a list, a start time that is
\* not HH:MM was saved for that list
C22_Witness ==
    /\ Running
    /\ call = Called("handleSaveListStartTime", activeRoutineState.listId)
    /\ activeRoutineState.currentRoutineIndex = 1
    /\ Cardinality(intervals) = 1


----------------------------------------------------------------------------
(* Durations as text, lines 52-84.  A string is the sequence of its         *)
(* characters.  A JavaScript number is a decimal n / 10^d kept in lowest    *)
(* terms of ten (d = 0 for an integer), or NaN.  Products and sums are      *)
(* exact; where a number has a fraction, the double-precision result of     *)
(* the program can differ from the exact one in its last place.            *)

Num(n, d) == [nan |-> FALSE, n |-> n, d |-> d]
NaN == [nan |-> TRUE, n |-> 0, d |-> 0]

RECURSIVE Norm(_, _)
Norm(n, d) == IF d > 0 /\ n % 10 = 0 THEN Norm(n \div 10, d - 1) ELSE Num(n, d)

RECURSIVE Pow10(_)
Pow10(d) == IF d = 0 THEN 1 ELSE 10 * Pow10(d - 1)

\* x * k for an integer k, x + y, and Math.max(0, x)
TimesInt(x, k) == Norm(x.n * k, x.d)
Plus(x, y) ==
    LET d == Max(x.d, y.d)
    IN  Norm(x.n * Pow10(d - x.d) + y.n * Pow10(d - y.d), d)
MathMax0(x) == IF x.n < 0 THEN Num(0, 0) ELSE x

DigitChars == <<"0", "1", "2", "3", "4", "5", "6", "7", "8", "9">>
IsDigit(c) == \E v \in 1..10 : DigitChars[v] = c
DigitValue(c) == (CHOOSE v \in 1..10 : DigitChars[v] = c) - 1
AllDigits(str) == \A i \in 1..Len(str) : IsDigit(str[i])

RECURSIVE DigitsValue(_)
DigitsValue(str) ==
    IF str = <<>> THEN 0
    ELSE DigitsValue(SubSeq(str, 1, Len(str) - 1)) * 10 + DigitValue(str[Len(str)])

\* Number.prototype.toString of a non-negative integer
RECURSIVE NatToString(_)
NatToString(n) ==
    IF n < 10 THEN <<DigitChars[n + 1]>>
    ELSE NatToString(n \div 10) \o <<DigitChars[(n % 10) + 1]>>

\* String.prototype.padStart(targetLength, padChar)
RECURSIVE padStart(_, _, _)
padStart(str, targetLength, padChar) ==
    IF Len(str) >= targetLength THEN str
    ELSE padStart(<<padChar>> \o str, targetLength, padChar)

\* a split that cuts at the first separator only
splitOnce(str, sep) ==
    IF \A i \in 1..Len(str) : str[i] # sep THEN <<str>>
    ELSE LET i == CHOOSE i \in 1..Len(str) :
                      str[i] = sep /\ \A j \in 1..(i - 1) : str[j] # sep
         IN  <<SubSeq(str, 1, i - 1), SubSeq(str, i + 1, Len(str))>>

\* String.prototype.split(sep) for a one-character separator
RECURSIVE split(_, _)
split(str, sep) ==
    IF \A i \in 1..Len(str) : str[i] # sep THEN <<str>>
    ELSE LET i == CHOOSE i \in 1..Len(str) :
                      str[i] = sep /\ \A j \in 1..(i - 1) : str[j] # sep
         IN  <<SubSeq(str, 1, i - 1)>> \o split(SubSeq(str, i + 1, Len(str)), sep)

\* Number(str): white space trimmed, "" is 0, then an optional sign and a
\* decimal literal with digits on at least one side of an optional point
\* (the forms with an exponent, a radix prefix or Infinity need characters
\* the strings of the model do not have)
StringToNumber(str) ==
    LET t == Trim(str)
        signed == t # <<>> /\ t[1] \in {"-", "+"}
        sign == IF t # <<>> /\ t[1] = "-" THEN -1 ELSE 1
        body == IF signed THEN Tail(t) ELSE t
        points == { i \in 1..Len(body) : body[i] = "." }
    IN  IF t = <<>> THEN Num(0, 0)
        ELSE IF points = {}
        THEN IF body # <<>> /\ AllDigits(body)
             THEN Num(sign * DigitsValue(body), 0) ELSE NaN
        ELSE IF Cardinality(points) = 1
        THEN LET p == CHOOSE i \in points : TRUE
                 whole == SubSeq(body, 1, p - 1)
                 fraction == SubSeq(body, p + 1, Len(body))
             IN  IF AllDigits(whole) /\ AllDigits(fraction)
                    /\ Len(whole) + Len(fraction) > 0
                 THEN Norm(sign * (DigitsValue(whole) * Pow10(Len(fraction))
                                       + DigitsValue(fraction)),
                           Len(fraction))
                 ELSE NaN
        ELSE NaN

\* String(x) for a number that is written without an exponent
NumberToString(x) ==
    LET a == IF x.n < 0 THEN 0 - x.n ELSE x.n
        whole == a \div Pow10(x.d)
        fraction == a % Pow10(x.d)
    IN  (IF x.n < 0 THEN <<"-">> ELSE <<>>)
        \o NatToString(whole)
        \o (IF x.d > 0 THEN <<".">> \o padStart(NatToString(fraction), x.d, "0")
            ELSE <<>>)

\* lines 52-69: NullNumber, or <<x>> for the number x of seconds
parseDurationToSeconds(input) ==
    IF input = <<>> \/ Trim(input) = <<>> THEN NullNumber
    ELSE LET numberInput == StringToNumber(input)
         IN  IF ~numberInput.nan /\ NumberToString(numberInput) = Trim(input)
             THEN <<MathMax0(TimesInt(numberInput, 60))>>
             ELSE LET strs == split(input, ":")
                      parts == [i \in 1..Len(strs) |-> StringToNumber(strs[i])]
                  IN  IF \E i \in 1..Len(parts) : parts[i].nan THEN NullNumber
                      ELSE IF Len(parts) = 2
                      THEN <<MathMax0(Plus(TimesInt(parts[1], 60), parts[2]))>>
                      ELSE IF Len(parts) = 3
                      THEN <<MathMax0(Plus(Plus(TimesInt(parts[1], 3600),
                                                TimesInt(parts[2], 60)),
                                           parts[3]))>>
                      ELSE NullNumber

\* formatDuration with the leading field written as the number prints
formatDurationUnpadded(totalSeconds) ==
    LET total == IF totalSeconds < 0 THEN 0 ELSE totalSeconds
        h == total \div 3600
        m == (total % 3600) \div 60
        s == total % 60
    IN  IF h > 0
        THEN NatToString(h) \o <<":">>
             \o padStart(NatToString(m), 2, "0") \o <<":">>
             \o padStart(NatToString(s), 2, "0")
        ELSE IF m > 0
        THEN NatToString(m) \o <<":">> \o padStart(NatToString(s), 2, "0")
        ELSE NatToString(s) \o <<"s">>

\* lines 71-84, for an integer number of seconds
formatDuration(totalSeconds) ==
    LET total == IF totalSeconds < 0 THEN 0 ELSE totalSeconds
        h == total \div 3600
        m == (total % 3600) \div 60
        s == total % 60
    IN  IF h > 0
        THEN padStart(NatToString(h), 2, "0") \o <<":">>
             \o padStart(NatToString(m), 2, "0") \o <<":">>
             \o padStart(NatToString(s), 2, "0")
        ELSE IF m > 0
        THEN padStart(NatToString(m), 2, "0") \o <<":">>
             \o padStart(NatToString(s), 2, "0")
        ELSE NatToString(s) \o <<"s">>

\* characters of the duration strings a user types, and their greatest length
DurationChars == { "0", "1", "5", ":", "-", ".", " ", "s" }
MaxInputLen == 4
DurationStrings == UNION { [1..n -> DurationChars] : n \in 0..MaxInputLen }

\* numbers of seconds handed to formatDuration
MaxFormatSeconds == 200
FormatSeconds ==
    (-1)..MaxFormatSeconds
        \cup { 599, 600, 3599, 3600, 3601, 3661, 35999, 36000, 86399, 86400,
               359999, 360000, 360001 }

\* a call of parseDurationToSeconds on a typed string, or of formatDuration
\* on a number of seconds, whose text is then parsed back
InitDuration ==
    /\ lists = <<>>
    /\ activeRoutineState = NULL
    /\ timerIdRef = NoTimer
    /\ intervals = {}
    /\ emitted = <<>>
    /\ idCounter = 0
    /\ moveCount = 0
    /\ call \in { [op |-> "parseDurationToSeconds", seconds |-> 0, text |-> str,
                   result |-> NullNumber, stage |-> 0] : str \in DurationStrings }
                \cup
                { [op |-> "formatDuration", seconds |-> n, text |-> <<>>,
                   result |-> NullNumber, stage |-> 0] : n \in FormatSeconds }

ApplyParseDuration ==
    /\ call.op = "parseDurationToSeconds"
    /\ call.stage = 0
    /\ call' = [call EXCEPT !.stage = 1,
                            !.result = parseDurationToSeconds(call.text)]
    /\ UNCHANGED <<lists, activeRoutineState, timerIdRef, intervals, emitted,
                   idCounter, moveCount>>

ApplyFormatDuration ==
    /\ call.op = "formatDuration"
    /\ call.stage = 0
    /\ call' = [call EXCEPT !.stage = 1, !.text = formatDuration(call.seconds)]
    /\ UNCHANGED <<lists, activeRoutineState, timerIdRef, intervals, emitted,
                   idCounter, moveCount>>

\* the formatted text is read back, as the duration editor does (line 190)
ParseFormatted ==
    /\ call.op = "formatDuration"
    /\ call.stage = 1
    /\ call' = [call EXCEPT !.stage = 2,
                            !.result = parseDurationToSeconds(call.text)]
    /\ UNCHANGED <<lists, activeRoutineState, timerIdRef, intervals, emitted,
                   idCounter, moveCount>>

NextDuration == ApplyParseDuration \/ ApplyFormatDuration \/ ParseFormatted

SpecDuration == InitDuration /\ [][NextDuration]_vars


\* a string that is a number as one writes it: an optional minus sign, digits,
\* and optionally a point followed by digits (white space around it aside)
IsNumeral(str) ==
    LET t == Trim(str)
        body == IF t # <<>> /\ t[1] = "-" THEN Tail(t) ELSE t
        points == { i \in 1..Len(body) : body[i] = "." }
    IN  /\ body # <<>>
        /\ \A i \in 1..Len(body) : IsDigit(body[i]) \/ body[i] = "."
        /\ Cardinality(points) <= 1
        /\ IsDigit(body[1])
        /\ IsDigit(body[Len(body)])

\* the seconds a colon-separated form stands for: its last part counts
\* seconds, the one before it minutes, the one before that hours
RECURSIVE FormSeconds(_)
FormSeconds(strs) ==
    IF strs = <<>> THEN Num(0, 0)
    ELSE Plus(TimesInt(FormSeconds(SubSeq(strs, 1, Len(strs) - 1)), 60),
              StringToNumber(strs[Len(strs)]))

\* C23: parseDurationToSeconds gives, for a bare number, that number of
\* minutes in seconds, and zero when that is negative; for two or three
\* colon-separated parts that are all numbers, the seconds they stand for,
\* and zero when that is negative; and null for an empty string, for a part
\* that is not a number, and for any other number of parts.
C23_ParseDurationContract ==
    (call.op = "parseDurationToSeconds" /\ call.stage = 1) =>
        LET strs == split(call.text, ":")
        IN  IF Trim(call.text) = <<>> THEN call.result = NullNumber
            ELSE IF \E i \in 1..Len(strs) : ~IsNumeral(strs[i])
            THEN call.result = NullNumber
            ELSE IF Len(strs) = 1
            THEN call.result = <<MathMax0(TimesInt(StringToNumber(strs[1]), 60))>>
            ELSE IF Len(strs) \in {2, 3}
            THEN call.result = <<MathMax0(FormSeconds(strs))>>
            ELSE call.result = NullNumber


\* a field below 60 written with exactly two digits, and a leading field
\* written with its own digits or, below ten, with a zero before its digit
TwoDigits(n) == <<DigitChars[(n \div 10) + 1], DigitChars[(n % 10) + 1]>>
LeadingUnpadded(n) == NatToString(n)
LeadingPadded(n) == IF n < 10 THEN <<"0", DigitChars[n + 1]>> ELSE NatToString(n)

\* the text of a call of formatDuration on a non-negative number of seconds
\* is H:MM:SS, M:SS or Ns, the leading field H or M written with two digits
\* at least when leadPadded holds, and as the number prints otherwise
FormatDurationForm(leadPadded) ==
    (call.op = "formatDuration" /\ call.stage >= 1 /\ call.seconds >= 0) =>
        LET h == call.seconds \div 3600
            m == (call.seconds % 3600) \div 60
            s == call.seconds % 60
        IN  call.text =
                IF h > 0
                THEN (IF leadPadded THEN LeadingPadded(h) ELSE LeadingUnpadded(h))
                     \o <<":">> \o TwoDigits(m) \o <<":">> \o TwoDigits(s)
                ELSE IF m > 0
                THEN (IF leadPadded THEN LeadingPadded(m) ELSE LeadingUnpadded(m))
                     \o <<":">> \o TwoDigits(s)
                ELSE NatToString(s) \o <<"s">>

\* C24 as stated: formatDuration renders H:MM:SS when hours > 0 and M:SS when
\* minutes > 0 and hours = 0, the leading field without padding, and Ns under
\* a minute, for every non-negative integer number of seconds.
C24_FormatDurationUnpaddedLead == FormatDurationForm(FALSE)

\* C24: formatDuration renders HH:MM:SS when hours > 0 (the hours with two
\* digits at least: 3600 is "01:00:00", 360000 is "100:00:00"), MM:SS when
\* minutes > 0 and hours = 0 (300 is "05:00"), and Ns under a minute, for
\* every non-negative integer number of seconds.
C24_FormatDurationForms == FormatDurationForm(TRUE)

C24_Witness ==
    /\ call.op = "formatDuration"
    /\ call.stage = 1
    /\ call.seconds = 3661
    /\ call.text = <<"0", "1", ":", "0", "1", ":", "0", "1">>


\* C25: for every integer number of seconds n >= 60, parsing the text that
\* formatDuration gives for n gives n back.
C25_FormatThenParse ==
    (call.op = "formatDuration" /\ call.stage = 2 /\ call.seconds >= 60) =>
        call.result = <<Num(call.seconds, 0)>>

C25_Witness ==
    /\ call.op = "formatDuration"
    /\ call.stage = 2
    /\ call.seconds = 86399
    /\ call.text = <<"2", "3", ":", "5", "9", ":", "5", "9">>
    /\ call.result = <<Num(86399, 0)>>


----------------------------------------------------------------------------
(* A wall time plus an offset, lines 31-50: parseTimeToDate, then            *)
(* addSecondsToDate, then formatTimeFromDate, as recalculateTimesInList      *)
(* chains them (lines 699-710).  The day has 24 hours: a change of the       *)
(* clock for daylight saving during it is left out.                          *)

ClockTimes ==
    { <<0, 0, 0>>, <<8, 0, 0>>, <<12, 30, 15>>, <<23, 0, 0>>, <<23, 59, 0>>,
      <<23, 59, 59>> }
MaxClockOffset == 30
ClockOffsets ==
    0..MaxClockOffset
        \cup { 59, 60, 61, 3599, 3600, 3601, 43200, 57600, 86399, 86400, 86401,
               90000, 172800 }

InitClock ==
    /\ lists = <<>>
    /\ activeRoutineState = NULL
    /\ timerIdRef = NoTimer
    /\ intervals = {}
    /\ emitted = <<>>
    /\ idCounter = 0
    /\ moveCount = 0
    /\ call \in { [op |-> "addSecondsToDate", time |-> t, seconds |-> d,
                   done |-> FALSE, result |-> t] :
                  t \in ClockTimes, d \in ClockOffsets }

\* the end time of a routine that starts at call.time and lasts call.seconds
ApplyClock ==
    /\ call.op = "addSecondsToDate"
    /\ ~call.done
    /\ call' = [call EXCEPT
                   !.done = TRUE,
                   !.result = formatTimeFromDate(
                                  addSecondsToDate(parseTimeToDate(call.time),
                                                   call.seconds))]
    /\ UNCHANGED <<lists, activeRoutineState, timerIdRef, intervals, emitted,
                   idCounter, moveCount>>

NextClock == ApplyClock

SpecClock == InitClock /\ [][NextClock]_vars

\* a time of day HH:MM:SS
IsTimeOfDay(t) ==
    /\ Len(t) = 3
    /\ t[1] \in 0..23
    /\ t[2] \in 0..59
    /\ t[3] \in 0..59

\* the result of a call is the time of day t + d when that is within the day
\* of t, and (t + d) mod 24 h when it is not; in the latter case the result
\* is earlier than t, always when anyOffset holds, and for an offset below
\* 24 h otherwise
WallTimePlusOffset(anyOffset) ==
    (call.op = "addSecondsToDate" /\ call.done) =>
        LET t == SecondsOfDay(call.time)
            d == call.seconds
            r == SecondsOfDay(call.result)
        IN  /\ IsTimeOfDay(call.result)
            /\ t + d < SecondsPerDay => r = t + d
            /\ t + d >= SecondsPerDay =>
                  /\ r = (t + d) % SecondsPerDay
                  /\ (anyOffset \/ d < SecondsPerDay) => r < t

\* C26 as stated: for every wall time t and non-negative integer offset d,
\* parsing t, adding d and formatting gives the time of day t + d when t + d
\* stays within the day, and (t + d) mod 24 h when it crosses midnight, and
\* then the end time is earlier than the start time t.
C26_WrapIsEarlier == WallTimePlusOffset(TRUE)

\* C26: for every wall time t and non-negative integer offset d, parsing t,
\* adding d and formatting gives the time of day t + d when t + d stays
\* within the day, and (t + d) mod 24 h when it crosses midnight; the end
\* time is then earlier than the start time t when d is less than 24 h.
C26_WallTimePlusOffset == WallTimePlusOffset(FALSE)

\* 23:59:59 plus one hour and a second is 01:00:00
C26_Witness ==
    /\ call.op = "addSecondsToDate"
    /\ call.done
    /\ call.time = <<23, 59, 59>>
    /\ call.seconds = 3601
    /\ call.result = <<1, 0, 0>>


----------------------------------------------------------------------------
(* What reaches the speech sink, lines 126-175.  playBeepSound(callback)     *)
(* starts the tone and sets a timeout of durationMs + 50 ms for the          *)
(* callback (lines 144-152); speakText hands its text to                     *)
(* speechSynthesis.speak at once (line 174).  `call` holds the callbacks     *)
(* waiting for their timeout and the latest texts speechSynthesis was given. *)

MaxTimeouts == 2
MaxSpoken == 2

NoSink == [op |-> "sink", timeouts |-> <<>>, spoken |-> <<>>]

\* the latest MaxSpoken texts
Latest(texts) ==
    IF Len(texts) <= MaxSpoken THEN texts
    ELSE SubSeq(texts, Len(texts) - MaxSpoken + 1, Len(texts))

\* speakText(text), lines 173-174: the utterance being spoken is cancelled
\* and the text is spoken
speakText(sink, text) == [sink EXCEPT !.spoken = Latest(Append(sink.spoken, text))]

\* playBeepSound(() => speakText(text)), lines 144-152
playBeepSound(sink, text) == [sink EXCEPT !.timeouts = Append(sink.timeouts, text)]

\* the calls a step made, in the order it made them
RECURSIVE Deliver(_, _)
Deliver(sink, notes) ==
    IF notes = <<>> THEN sink
    ELSE Deliver(IF Head(notes).sink = "beepThenSpeak"
                 THEN playBeepSound(sink, Head(notes).text)
                 ELSE speakText(sink, Head(notes).text),
                 Tail(notes))

\* the step's notifications go to the sink; timeouts that are due fire
\* before more than MaxTimeouts of them wait
ToSink ==
    /\ call' = Deliver(call, emitted')
    /\ Len(call'.timeouts) <= MaxTimeouts

\* a timeout set by playBeepSound fires, lines 144-152: callbacks with the
\* same delay run in the order they were set
TimeoutFires ==
    /\ call.timeouts # <<>>
    /\ call' = [speakText(call, Head(call.timeouts)) EXCEPT
                   !.timeouts = Tail(call.timeouts)]
    /\ emitted' = <<>>
    /\ UNCHANGED <<lists, activeRoutineState, timerIdRef, intervals, idCounter,
                   moveCount>>

InitSink ==
    /\ lists = <<>>
    /\ activeRoutineState = NULL
    /\ timerIdRef = NoTimer
    /\ intervals = {}
    /\ emitted = <<>>
    /\ idCounter = 0
    /\ moveCount = 0
    /\ call = NoSink

\* lists are made, routines added and deleted, lists started and stopped,
\* the interval fires, and the timeouts of playBeepSound fire
NextSink ==
    \/ \E n \in ListNameInputs :
          Len(lists) < MaxLists /\ handleAddList(n) /\ ToSink
    \/ \E k \in ListPositions, n \in NameInputs, d \in ParsedDurations,
          t \in TimeInputs :
          /\ idCounter < MaxRoutines
          /\ handleSubmitNewRoutine(k, n, d, t)
          /\ ToSink
    \/ \E k \in ListPositions, now \in NowDates :
          \E i \in CardIndices(k) :
              /\ handleDeleteRoutine(lists[k].id, lists[k].routines[i + 1].id, now)
              /\ ToSink
    \/ \E k \in ListPositions : handleToggleStartStopList(lists[k].id) /\ ToSink
    \/ \E iv \in intervals : Tick(iv) /\ ToSink
    \/ TimeoutFires

SpecSink == InitSink /\ [][NextSink]_vars

\* text comes before later in the texts given to the sink
SpokenBefore(texts, text, later) ==
    \E i \in 1..Len(texts), j \in 1..Len(texts) :
        i < j /\ texts[i] = text /\ texts[j] = later

\* C27: when the last routine of the running list completes, the
\* routine-complete notification for that routine has reached the sink
\* before the all-routines-complete notification reaches it.
C27_RoutineCompleteReachesSinkFirst ==
    [][(/\ Running
        /\ OnLastRoutine
        /\ activeRoutineState.timeLeftInSeconds <= 1
        /\ ~Running'
        /\ \E n \in 1..Len(emitted') : emitted'[n].text.tpl = "alleAbgeschlossen")
       => SpokenBefore(call'.spoken,
                       Msg("istFertig", activeRoutineState.routineName),
                       Msg("alleAbgeschlossen", lists[ActiveK].title))]_vars


----------------------------------------------------------------------------
(* The remaining seconds of the running routine *)

\* the routine the timer is running, in the list as it is now
ActiveRoutine == lists[ActiveK].routines[activeRoutineState.currentRoutineIndex + 1]

\* C28: in every reachable state where the timer is Running at index k of
\* list L, 0 <= remaining <= L.routines[k].duration, whatever ticks, start
\* and stop commands and mutations came before.
C28_RemainingWithinDuration ==
    Running =>
        /\ ActiveK # 0
        /\ activeRoutineState.currentRoutineIndex \in CardIndices(ActiveK)
        /\ 0 <= activeRoutineState.timeLeftInSeconds
        /\ activeRoutineState.timeLeftInSeconds <= ActiveRoutine.durationSeconds

\* after a card was moved, the timer has advanced to the second routine of
\* a list and has counted one of its two seconds
C28_Witness ==
    /\ Running
    /\ activeRoutineState.currentRoutineIndex = 1
    /\ activeRoutineState.timeLeftInSeconds = 1
    /\ ActiveRoutine.durationSeconds = 2
    /\ moveCount = 1


----------------------------------------------------------------------------
(* Deleting a routine while the timer runs, lines 797-824.  `call` records  *)
(* the deletion the last step made: the list, the index of the deleted      *)
(* routine, and the active state the handler found.                         *)

CallDeleteRoutineAt(k, i, now) ==
    /\ handleDeleteRoutine(lists[k].id, lists[k].routines[i + 1].id, now)
    /\ call' = [op |-> "handleDeleteRoutine", listId |-> lists[k].id,
                index |-> i, before |-> activeRoutineState]

NextDelete ==
    \/ \E n \in ListNameInputs :
          Len(lists) < MaxLists /\ handleAddList(n) /\ call' = NoCall
    \/ \E k \in ListPositions, n \in NameInputs, d \in ParsedDurations,
          t \in TimeInputs :
          /\ idCounter < MaxRoutines
          /\ handleSubmitNewRoutine(k, n, d, t)
          /\ call' = NoCall
    \/ \E k \in ListPositions : handleToggleStartStopList(lists[k].id) /\ call' = NoCall
    \/ \E iv \in intervals : Tick(iv) /\ call' = NoCall
    \/ \E k \in ListPositions, now \in NowDates :
          \E i \in CardIndices(k) : CallDeleteRoutineAt(k, i, now)

SpecDelete == Init /\ [][NextDelete]_vars

\* the last step deleted a routine while the timer was running, and not the
\* running routine or one before it in the running list
DeletedBesideActive ==
    /\ call.op = "handleDeleteRoutine"
    /\ call.before # NULL
    /\ \/ call.listId # call.before.listId
       \/ call.index > call.before.currentRoutineIndex

\* one interval is armed, timerIdRef holds its handle, and its callback sees
\* the lists as they are now
IntervalArmed ==
    /\ Cardinality(intervals) = 1
    /\ \A iv \in intervals : iv.id = timerIdRef /\ iv.lists = lists

\* C29: deleting a routine that comes after the active routine in the
\* running list, or any routine of another list, leaves the timer Running
\* with the same list, index, routine id and remaining seconds.
C29_DeleteBesideActiveKeepsTimer ==
    DeletedBesideActive =>
        /\ Running
        /\ activeRoutineState.listId = call.before.listId
        /\ activeRoutineState.currentRoutineIndex = call.before.currentRoutineIndex
        /\ activeRoutineState.routineId = call.before.routineId
        /\ activeRoutineState.timeLeftInSeconds = call.before.timeLeftInSeconds
        /\ IntervalArmed

\* the second routine of the running list was deleted while the first one
\* had one of its two seconds left
C29_Witness ==
    /\ DeletedBesideActive
    /\ call.listId = call.before.listId
    /\ call.index = 1
    /\ call.before.currentRoutineIndex = 0
    /\ call.before.timeLeftInSeconds = 1
    /\ Len(lists[ActiveK].routines) = 1
    /\ ActiveRoutine.durationSeconds = 2


----------------------------------------------------------------------------
(* A routine appended to the running list, lines 717-744 and 636-685.       *)
(* `call` records the append; until the timer is Idle again no command      *)
(* follows it, and the armed interval keeps firing.                         *)

MaxAppendRoutines == 3

\* no routine was appended to the running list, or the timer has stopped
NoAppendUnderWay == call = NoCall \/ ~Running

\* the append the step made to the running list, if it made one
AppendLogged(k) ==
    IF activeOn(lists[k].id) /\ idCounter' = idCounter + 1
    THEN LET newRoutine == lists'[k].routines[Len(lists'[k].routines)]
         IN  [op |-> "handleAddRoutineToList", listId |-> lists[k].id,
              routineId |-> newRoutine.id, name |-> newRoutine.name,
              durationSeconds |-> newRoutine.durationSeconds]
    ELSE NoCall

TickAppend == \E iv \in intervals : Tick(iv) /\ UNCHANGED call

NextAppend ==
    \/ \E n \in ListNameInputs :
          /\ NoAppendUnderWay
          /\ Len(lists) < MaxLists
          /\ handleAddList(n)
          /\ call' = NoCall
    \/ \E k \in ListPositions, n \in NameInputs, d \in ParsedDurations,
          t \in TimeInputs :
          /\ NoAppendUnderWay
          /\ idCounter < MaxAppendRoutines
          /\ handleSubmitNewRoutine(k, n, d, t)
          /\ call' = AppendLogged(k)
    \/ \E k \in ListPositions :
          /\ NoAppendUnderWay
          /\ handleToggleStartStopList(lists[k].id)
          /\ call' = NoCall
    \/ TickAppend

\* an armed interval fires, one second after it was armed or fired last
SpecAppend == Init /\ [][NextAppend]_vars /\ WF_vars(TickAppend)

\* a routine was appended to the running list and the timer has not come to it
AppendedAhead ==
    /\ call.op = "handleAddRoutineToList"
    /\ Running
    /\ activeRoutineState.routineId # call.routineId

\* the timer starts the appended routine, the last of its list
AppendedReached ==
    /\ call.op = "handleAddRoutineToList"
    /\ Running
    /\ activeRoutineState.listId = call.listId
    /\ activeRoutineState.routineId = call.routineId
    /\ activeRoutineState.currentRoutineIndex = Len(lists[ActiveK].routines) - 1
    /\ activeRoutineState.timeLeftInSeconds = call.durationSeconds

\* the appended routine is announced as finished, and then the list
AppendedCompleted ==
    /\ call.op = "handleAddRoutineToList"
    /\ ~Running
    /\ emitted = <<BeepThenSpeak("istFertig", call.name),
                   Speak("alleAbgeschlossen",
                         lists[findList(lists, call.listId)].title)>>

\* C30: adding a routine never changes the timer state; and a routine
\* appended to the running list while the timer is Running is later reached
\* by the timer when no further command comes: it gets its own Running phase
\* with remaining = its duration, and the step that ends that phase emits
\* its routine-complete notification and, after it, the
\* all-routines-complete notification.
C30_AppendedRoutineIsReached ==
    /\ [][idCounter' = idCounter + 1 =>
            /\ activeRoutineState' = activeRoutineState
            /\ Running => (Cardinality(intervals') = 1
                           /\ \A iv \in intervals' : iv.id = timerIdRef')]_vars
    /\ AppendedAhead ~> AppendedReached
    /\ AppendedReached ~> AppendedCompleted
    /\ [](call.op = "handleAddRoutineToList" =>
            \A n \in 1..Len(emitted) :
                emitted[n].text.tpl = "alleAbgeschlossen" =>
                    /\ n > 1
                    /\ emitted[n - 1].text = Msg("istFertig", call.name))

\* the third routine of a list, appended while the first one was running,
\* has been run to its end
C30_Witness ==
    /\ AppendedCompleted
    /\ call.routineId = 3
    /\ Len(lists[findList(lists, call.listId)].routines) = 3


----------------------------------------------------------------------------
(* A list run from its start command to its end, lines 876-902 and 636-685. *)
(* `call` records the start command: the list as it was started, the        *)
(* number of times the interval has fired since, and the routine-complete   *)
(* notifications those firings emitted.  No command follows the start       *)
(* until the timer is Idle again, and the armed interval keeps firing.      *)

MaxRunRoutines == 3

\* no list is being run
NoRunUnderWay == call = NoCall \/ ~Running

\* the start command the step made, if it started a list
StartLogged(k) ==
    IF activeRoutineState' # NULL
    THEN [op |-> "handleToggleStartStopList", listId |-> lists[k].id,
          routines |-> lists[k].routines, ticks |-> 0, completed |-> <<>>]
    ELSE NoCall

\* the routine-complete notifications among the notes of a step that ended
\* the routine at the given index
RECURSIVE CompletedBy(_, _)
CompletedBy(notes, index) ==
    IF notes = <<>> THEN <<>>
    ELSE (IF Head(notes).text.tpl = "istFertig"
          THEN <<[index |-> index, name |-> Head(notes).text.arg]>>
          ELSE <<>>) \o CompletedBy(Tail(notes), index)

TickRun ==
    \E iv \in intervals :
        /\ Tick(iv)
        /\ call' = IF call.op = "handleToggleStartStopList" /\ Running
                   THEN [call EXCEPT
                            !.ticks = call.ticks + 1,
                            !.completed =
                                call.completed
                                \o CompletedBy(emitted',
                                               activeRoutineState.currentRoutineIndex)]
                   ELSE call

NextRun ==
    \/ \E n \in ListNameInputs :
          /\ NoRunUnderWay
          /\ Len(lists) < MaxLists
          /\ handleAddList(n)
          /\ call' = NoCall
    \/ \E k \in ListPositions, n \in NameInputs, d \in ParsedDurations,
          t \in TimeInputs :
          /\ NoRunUnderWay
          /\ idCounter < MaxRunRoutines
          /\ handleSubmitNewRoutine(k, n, d, t)
          /\ call' = NoCall
    \/ \E k \in ListPositions, d \in ParsedDurations, now \in NowDates :
          \E i \in CardIndices(k) :
              /\ NoRunUnderWay
              /\ handleSaveDuration(k, i, d, now)
              /\ call' = NoCall
    \/ \E k \in ListPositions :
          /\ NoRunUnderWay
          /\ handleToggleStartStopList(lists[k].id)
          /\ call' = StartLogged(k)
    \/ TickRun

\* an armed interval fires, one second after it was armed or fired last
SpecRun == Init /\ [][NextRun]_vars /\ WF_vars(TickRun)

\* the ticks the routines take: a routine of duration d takes max(d, 1)
RECURSIVE TicksOf(_)
TicksOf(routines) ==
    IF routines = <<>> THEN 0
    ELSE Max(Head(routines).durationSeconds, 1) + TicksOf(Tail(routines))

\* a list was started and is running
RunUnderWay == call.op = "handleToggleStartStopList" /\ Running

\* the list that was started has run to its end
RunOver == call.op = "handleToggleStartStopList" /\ ~Running

\* C31: after a start command on a list with routines of durations
\* d_0..d_(n-1), with the interval firing and no further command, the timer
\* becomes Idle; it does so after exactly the sum over i of max(d_i, 1)
\* ticks, and the routine-complete notifications emitted until then are
\* those of the indices 0..n-1, in index order, each once.
C31_RunTakesSumOfDurations ==
    /\ RunUnderWay ~> RunOver
    /\ [](RunUnderWay =>
            /\ call.ticks < TicksOf(call.routines)
            /\ Len(call.completed) = activeRoutineState.currentRoutineIndex)
    /\ [](RunOver =>
            /\ call.ticks = TicksOf(call.routines)
            /\ call.completed =
                   [i \in 1..Len(call.routines) |->
                       [index |-> i - 1, name |-> call.routines[i].name]])

\* a list of three routines of 2, 0 and 1 seconds has run to its end in
\* four ticks
C31_Witness ==
    /\ RunOver
    /\ Len(call.routines) = 3
    /\ call.routines[1].durationSeconds = 2
    /\ call.routines[2].durationSeconds = 0
    /\ call.routines[3].durationSeconds = 1
    /\ call.ticks = 4
    /\ Len(call.completed) = 3


----------------------------------------------------------------------------
(* The routines of the collection as a whole, lines 717-744 and 841-874 *)

\* how many routines the lists hold
RECURSIVE CountRoutines(_)
CountRoutines(ls) ==
    IF ls = <<>> THEN 0 ELSE Len(Head(ls).routines) + CountRoutines(Tail(ls))

\* the ids of the routines of all lists
RoutineIdsOf(ls) ==
    UNION { { ls[k].routines[i].id : i \in 1..Len(ls[k].routines) } :
            k \in 1..Len(ls) }

\* each routine of all lists as its id, its name and its duration
RoutineIdentitiesOf(ls) ==
    UNION { { [id |-> ls[k].routines[i].id,
               name |-> ls[k].routines[i].name,
               durationSeconds |-> ls[k].routines[i].durationSeconds] :
              i \in 1..Len(ls[k].routines) } :
            k \in 1..Len(ls) }

\* C32: in every reachable state no routine id occurs twice across the
\* lists, and a move of a routine, within a list or between lists, leaves
\* the set of routine ids and each routine's name and duration as they
\* were: no routine is lost or duplicated.
C32_RoutinesKeptByMove ==
    /\ [](Cardinality(RoutineIdsOf(lists)) = CountRoutines(lists))
    /\ [][moveCount' = moveCount + 1 =>
            /\ RoutineIdsOf(lists') = RoutineIdsOf(lists)
            /\ RoutineIdentitiesOf(lists') = RoutineIdentitiesOf(lists)
            /\ CountRoutines(lists') = CountRoutines(lists)]_vars

\* the third routine created has been moved to the head of another list
\* that holds the first two
C32_Witness ==
    /\ moveCount = 1
    /\ \E k \in ListPositions :
          /\ Len(lists[k].routines) = 3
          /\ lists[k].routines[1].id = 3
          /\ lists[k].routines[2].id = 1
    /\ \E k \in ListPositions : Len(lists[k].routines) = 0


----------------------------------------------------------------------------
(* The fallback of the recalculator, lines 703-705: `new Date()` in place   *)
(* of the end time of the routine before.  A result computed with the       *)
(* fallback carries the reading of the wall clock as a start time, so it    *)
(* differs for two readings with different times of day.                    *)

\* two readings of the wall clock: 12:00:00 and 00:00:01
WallClocks == NowDates \cup { MsPerSecond }

\* the lists a mutation gives are the same for every reading of the clock
SameForEveryClock(results) == Cardinality(results) = 1

\* C33: in no sequence of Add routine, Update duration, Update list start
\* time, Delete routine, Delete all routines and Move routine does the
\* recalculator take its fallback: every routine has an end time, so
\* whenever the recalculator processes an index i > 0 the routine before it
\* has one, and whatever mutation comes next, its result does not depend on
\* the wall clock.
C33_FallbackNeverTaken ==
    /\ \A r \in AllRoutines : IsTimeOfDay(r.startTime) /\ IsTimeOfDay(r.endTime)
    /\ \A k \in ListPositions : \A i \in CardIndices(k) :
          /\ \A d \in DayParsedDurations :
                SameForEveryClock(
                    { updateRoutineDurationInList(lists, lists[k].id,
                          lists[k].routines[i + 1].id, d[1], now) :
                      now \in WallClocks })
          /\ SameForEveryClock(
                 { deleteRoutine(lists, lists[k].id, lists[k].routines[i + 1].id, now) :
                   now \in WallClocks })
          /\ \A kt \in ListPositions : \A targetIndex \in 0..MaxDayRoutines :
                SameForEveryClock(
                    { moveRoutine(lists, lists[k].routines[i + 1].id, lists[k].id,
                                  lists[kt].id, targetIndex, now) :
                      now \in WallClocks })
    /\ \A k \in ListPositions : \A t \in DayTimeInputs :
          SameForEveryClock(
              { updateListStartTime(lists, lists[k].id, Append(t, 0), now) :
                now \in WallClocks })

\* the only list ever made held three routines and lost the third: the
\* recalculator was called with start index 1 on the two that are left
C33_Witness ==
    /\ Len(lists) = 1
    /\ idCounter = 3
    /\ moveCount = 0
    /\ Len(lists[1].routines) = 2
    /\ lists[1].routines[1].id = 1
    /\ lists[1].routines[2].id = 2
    /\ lists[1].routines[2].startTime = lists[1].routines[1].endTime

============================================================================
